---- MODULE Spec2Model ----
(***************************************************************************)
(* Model of the user-configuration synchronisation layer of                *)
(* WxMpCloudBooster (utils.js): the path accessors putValue / pickValue,   *)
(* isEqual, and the UserConfig functions that keep a Storage snapshot      *)
(* ('s_' + c) in step with the user's record in the cloud collection c.    *)
(*                                                                         *)
(* A string is a sequence of glyphs (<<"a", ".", "b">> is 'a.b'); a value  *)
(* is a tagged record: undefined, null, a primitive, an object whose       *)
(* field f maps property names (strings) to values, or an array whose      *)
(* field e is the sequence of its elements.                                *)
(***************************************************************************)
EXTENDS Integers, Sequences, FiniteSets, TLC

(* ------------------------------ bounds -------------------------------- *)

\* number of utils calls issued in one run
MaxCalls == 2

\* number of Storage or database calls that fail in one run
MaxFailures == 1

(* ------------------------------ values -------------------------------- *)

Undef == [t |-> "undefined"]
Null == [t |-> "null"]
S(x) == [t |-> "s", v |-> x]
O(f) == [t |-> "o", f |-> f]
Arr(e) == [t |-> "a", e |-> e]
\* a thrown Error, as the result of an operator
Err == [t |-> "error"]
\* the database command $.remove()
Remove == [t |-> "remove"]
\* no value stored under a Storage key
Absent == [t |-> "absent"]

EmptyFcn == [k \in {} |-> Null]
EmptyObj == O(EmptyFcn)

\* obj[k]
Prop(obj, k) == IF obj.t = "o" /\ k \in DOMAIN obj.f THEN obj.f[k] ELSE Undef

\* obj[k] = val
SetProp(obj, k, val) ==
  O([x \in DOMAIN obj.f \cup {k} |-> IF x = k THEN val ELSE obj.f[x]])

\* delete obj[k]
DelProp(obj, k) == O([x \in DOMAIN obj.f \ {k} |-> obj.f[x]])

isNone(i) == i.t \in {"undefined", "null"}

isObject(i) == i.t = "o"

isArray(i) == i.t = "a"

isEmpty(i) ==
  \/ isNone(i)
  \/ isArray(i) /\ Len(i.e) = 0
  \/ isObject(i) /\ DOMAIN i.f = {}

\* v ?? d
Coalesce(v, d) == IF isNone(v) THEN d ELSE v

(* ------------------------------ strings ------------------------------- *)

includes(str, ch) == \E i \in 1..Len(str) : str[i] = ch

RECURSIVE splitRec(_, _, _)
splitRec(str, sep, cur) ==
  IF str = <<>> THEN <<cur>>
  ELSE IF Head(str) = sep THEN <<cur>> \o splitRec(Tail(str), sep, <<>>)
  ELSE splitRec(Tail(str), sep, Append(cur, Head(str)))

\* str.split(sep)
split(str, sep) == splitRec(str, sep, <<>>)

endsWith(str, suffix) ==
  /\ Len(str) >= Len(suffix)
  /\ SubSeq(str, Len(str) - Len(suffix) + 1, Len(str)) = suffix

(* --------------------------- path accessors --------------------------- *)

\* putWalk going through a value that is no object as through a missing one
RECURSIVE putWalkThrough(_, _, _, _)
putWalkThrough(current, ks, value, remove_undefined) ==
  IF ~isObject(current) THEN putWalkThrough(EmptyObj, ks, value, remove_undefined)
  ELSE IF Len(ks) = 1
  THEN IF value.t = "undefined" /\ remove_undefined
       THEN DelProp(current, ks[1])
       ELSE SetProp(current, ks[1], value)
  ELSE LET child == Prop(current, ks[1])
       IN  SetProp(current, ks[1],
                   putWalkThrough(IF isNone(child) THEN EmptyObj ELSE child,
                                  Tail(ks), value, remove_undefined))

\* putWalk storing undefined under the last segment in place of deleting it
RECURSIVE putWalkKeeps(_, _, _, _)
putWalkKeeps(current, ks, value, remove_undefined) ==
  IF ~isObject(current) THEN Err
  ELSE IF Len(ks) = 1 THEN SetProp(current, ks[1], value)
  ELSE LET child == Prop(current, ks[1])
           sub == putWalkKeeps(IF isNone(child) THEN EmptyObj ELSE child,
                               Tail(ks), value, remove_undefined)
       IN  IF sub.t = "error" THEN Err ELSE SetProp(current, ks[1], sub)

\* the loop of putValue from the container `current` down the segments ks
RECURSIVE putWalk(_, _, _, _)
putWalk(current, ks, value, remove_undefined) ==
  IF ~isObject(current) THEN Err
  ELSE IF Len(ks) = 1
  THEN IF value.t = "undefined" /\ remove_undefined
       THEN DelProp(current, ks[1])
       ELSE SetProp(current, ks[1], value)
  ELSE LET child == Prop(current, ks[1])
           sub == putWalk(IF isNone(child) THEN EmptyObj ELSE child,
                          Tail(ks), value, remove_undefined)
       IN  IF sub.t = "error" THEN Err ELSE SetProp(current, ks[1], sub)

\* the object after putValue(obj, key, value, {remove_undefined}), or Err
putValue(obj, key, value, remove_undefined) ==
  IF isNone(obj) THEN Err
  ELSE IF includes(key, ".")
  THEN putWalk(obj, split(key, "."), value, remove_undefined)
  ELSE IF ~isObject(obj) THEN Err
  ELSE IF value.t = "undefined" /\ remove_undefined
       THEN DelProp(obj, key)
       ELSE SetProp(obj, key, value)

\* pickWalk going on through a segment that holds null or undefined
RECURSIVE pickWalkOn(_, _)
pickWalkOn(obj, ks) ==
  IF ks = <<>> THEN obj ELSE pickWalkOn(Prop(obj, Head(ks)), Tail(ks))

\* the loop of pickValue: obj = obj[ks[i]], returned as soon as it is null or
\* undefined
RECURSIVE pickWalk(_, _)
pickWalk(obj, ks) ==
  IF ks = <<>> THEN obj
  ELSE LET nxt == Prop(obj, Head(ks))
       IN  IF isNone(nxt) THEN nxt ELSE pickWalk(nxt, Tail(ks))

\* pickValue reading obj[key] for a dotted key too
pickValueFlat(obj, key) == Prop(obj, key)

\* pickValue(obj, key), or Err for the TypeError of reading a property of
\* null or undefined
pickValue(obj, key) ==
  IF isNone(obj) THEN Err
  ELSE IF includes(key, ".") THEN pickWalk(obj, split(key, "."))
  ELSE Prop(obj, key)

RECURSIVE isEqual(_, _)
isEqual(a, b) ==
  IF a.t \in {"undefined", "null", "s"} /\ a = b THEN TRUE
  ELSE IF isNone(a) \/ isNone(b) THEN FALSE
  ELSE IF isArray(a) /\ isArray(b)
  THEN /\ Len(a.e) = Len(b.e)
       /\ \A i \in 1..Len(a.e) : isEqual(a.e[i], b.e[i])
  ELSE IF isObject(a) /\ isObject(b)
  THEN /\ Cardinality(DOMAIN a.f) = Cardinality(DOMAIN b.f)
       /\ \A k \in DOMAIN a.f : isEqual(a.f[k], Prop(b, k))
  ELSE FALSE

(* ------------------------- names and arguments ------------------------ *)

\* the slots in which calls run; a slot is reused once its call is retired
Ops == {1, 2}

NS_USER == <<"app", "_user">>
NS_CFG == <<"cfg">>
Namespaces == {NS_USER, NS_CFG}

KA == <<"a">>
KAB == <<"a", ".", "b">>
Keys == {KA, KAB}
\* a key that shares no segment with KA and KAB
KC == <<"c">>

ID == <<"_id">>
OPENID == <<"_openid">>
IS_ADMIN == <<"is_admin">>

WriteVals == {S("1"), Null}
DefaultVals == {Null, S("D")}

\* objects passed to getUserConfigObj / setUserConfigObj, as the sequence of
\* their <<key, value>> entries in insertion order
GetObjs == { << <<KAB, S("D")>>, <<KA, Null>> >> }
SetObjs == { << <<KAB, S("1")>> >>, << <<KA, Null>>, <<KAB, S("1")>> >>,
             << <<KAB, S("1")>>, <<KC, S("1")>> >> }

\* the _id the database gives the n-th record of a user
idName(n) == IF n = 1 THEN "id1" ELSE IF n = 2 THEN "id2" ELSE "idN"

\* const storage_key = 's_' + c
storage_key(c) == <<"s_">> \o c
StorageKeys == {storage_key(c) : c \in Namespaces}

\* newDoc without the test of the collection name
newDocAdmin(c) == SetProp(EmptyObj, IS_ADMIN, S("false"))

\* doc = c.endsWith('_user') ? {is_admin: false} : {}
newDoc(c) ==
  IF endsWith(c, <<"_user">>) THEN SetProp(EmptyObj, IS_ADMIN, S("false"))
  ELSE EmptyObj

\* stripReserved without the removal of _id
stripReservedOpenid(d) == putValue(d, OPENID, Undef, TRUE)

\* _.putValue(doc, '_openid', undefined); _.putValue(doc, '_id', undefined)
stripReserved(d) == putValue(putValue(d, OPENID, Undef, TRUE), ID, Undef, TRUE)

\* a record of the collection: the fields plus _id and _openid
Record(fields, id) == SetProp(SetProp(fields, ID, S(id)), OPENID, S("openid"))

\* what the collections hold when the program starts: nothing, or a record
\* {a: {b: '1'}} that an earlier session left in NS_CFG
InitRemotes ==
  { [c \in Namespaces |-> <<>>],
    [c \in Namespaces |->
       IF c = NS_CFG
       THEN << Record(SetProp(EmptyObj, KA, SetProp(EmptyObj, <<"b">>, S("1"))), "id0") >>
       ELSE <<>>] }

(* --------------------------- cloud database --------------------------- *)

\* utils.undefinedToRemove: undefined properties become $.remove()
RECURSIVE undefinedToRemove(_)
undefinedToRemove(obj) ==
  IF isObject(obj)
  THEN O([k \in DOMAIN obj.f |->
            IF obj.f[k].t = "undefined" THEN Remove
            ELSE undefinedToRemove(obj.f[k])])
  ELSE IF isArray(obj)
  THEN Arr([i \in 1..Len(obj.e) |-> undefinedToRemove(obj.e[i])])
  ELSE obj

\* collection.update({data}): the fields of data are set on the record,
\* nested objects field by field, $.remove() fields are deleted
RECURSIVE dbMerge(_, _)
dbMerge(rec, data) ==
  LET removed == {k \in DOMAIN data.f : data.f[k].t = "remove"}
  IN  O([k \in (DOMAIN rec.f \cup DOMAIN data.f) \ removed |->
           IF k \notin DOMAIN data.f THEN rec.f[k]
           ELSE IF ~isObject(data.f[k]) THEN data.f[k]
           ELSE IF isObject(Prop(rec, k)) THEN dbMerge(rec.f[k], data.f[k])
           ELSE dbMerge(EmptyObj, data.f[k])])

\* the user's records after updateMyMatch(c, {}, d)
dbUpdate(recs, d) == [i \in 1..Len(recs) |-> dbMerge(recs[i], undefinedToRemove(d))]

\* res.stats.updated: the number of records the update changed
dbUpdated(recs, d) == Cardinality({i \in 1..Len(recs) : dbUpdate(recs, d)[i] # recs[i]})

\* getMyOne(c, {}): the first record of the user, or null
dbGetOne(recs) == IF recs = <<>> THEN Null ELSE recs[1]

\* collection.add({data: d})
dbAdd(recs, d) == Append(recs, Record(d, idName(Len(recs) + 1)))

(* -------------------------------- state ------------------------------- *)

VARIABLES
  storage,     \* wx Storage: storage key -> stored value or Absent
  remote,      \* cloud database: collection -> the user's records
  buffer,      \* _user_config_buffer: c -> entries <<key, value>>, <<>> if none
  pc,          \* per slot: the asynchronous call the running function waits for
  call,        \* per slot: the function called and its arguments
  doc,         \* per slot: the local data / doc object of the function
  ret,         \* per slot: the value the promise resolved with
  flushBuf,    \* per slot: the buffer object a flush holds
  gwLog,       \* per slot: the database calls issued so far
  sv,          \* per slot: what _saveUserConfigToStorageAndCloudDB has seen
  seen,        \* per slot: what getStorage answered
  pre,         \* per slot: the situation when the call was issued
  clean,       \* per slot: nothing else has touched the collection since
  lastRead,    \* per collection: the getUserConfig that has just returned
  overlapped,  \* per collection: two calls have run at the same time
  failed,      \* per collection: a call failed or never settled
  hydFetch,    \* per collection: fetches for hydration since the last eviction
  created,     \* per collection: records added
  calls,       \* calls issued
  failures,    \* Storage and database calls that failed
  promise_queue, \* the functions given to addPromiseToQueue, in order
  running,     \* globalData().running: is_cloud_ready and what cloudReady keeps
  cloud_ready  \* the promises cloudReady returned, in order

\* the variables of the UserConfig functions and of the path accessors
main == <<storage, remote, buffer, pc, call, doc, ret, flushBuf, gwLog, sv,
          seen, pre, clean, lastRead, overlapped, failed, hydFetch, created,
          calls, failures>>

\* the variables of addPromiseToQueue and cloudReady
aside == <<promise_queue, running, cloud_ready>>

vars == <<main, aside>>

\* the pushUserConfig or pullUserConfig call (op) that a getUserConfig or
\* setUserConfig call is part of, its value and options (limit 0 is limit
\* null), and the array it read
NoPush == [on |-> FALSE, op |-> "none", value |-> Undef, allow_repeat |-> TRUE,
           limit |-> 0, prepend |-> FALSE, read |-> Undef]
NoCall == [kind |-> "none", c |-> <<>>, key |-> <<>>, value |-> Undef,
           default_value |-> Null, skip_equal |-> FALSE, obj |-> <<>>,
           push |-> NoPush, remove_undefined |-> TRUE]
NoRead == [valid |-> FALSE, key |-> <<>>, v |-> Undef, stored |-> Undef]
\* local: how setStorage of the save ended; before: the database calls the
\* function had issued when it did; updated, exists: what updateMyMatch and the
\* getMyOne after it answered; gw: the phase in which a database call failed
\* base: the data a write started from, before it put its entries
\* put: the entries it put
NoSave == [local |-> "none", before |-> -1, updated |-> -1, exists |-> "none",
           gw |-> "none", base |-> Undef, put |-> <<>>]
\* snap, rec: Storage had data / the user had a record; fresh: the doc a
\* session without data in Storage would load; read: the getUserConfig before
\* staged: the entries in the buffer when flushUserConfigBuffer was called
NoPre == [snap |-> FALSE, rec |-> FALSE, fresh |-> Undef, read |-> NoRead,
          staged |-> <<>>]
NoBuf == [live |-> FALSE, b |-> <<>>]
\* running before cloudReady is called: is_cloud_ready false, no
\* _cloud_ready_promises list (has), no _set_cloud_ready setter
NoRunning == [is_cloud_ready |-> FALSE, has |-> FALSE, promises |-> <<>>,
              setter |-> FALSE]

ReadKinds == {"getUserConfig", "getUserConfigObj"}
WriteKinds == {"setUserConfig", "setUserConfigObj", "flushUserConfigBuffer"}

InFlightPcs == {"getStorage", "getMyOne", "hydSetStorage", "saveSetStorage",
                "update", "existsCheck", "addDoc"}
InFlight(o) == pc[o] \in InFlightPcs

Init ==
  /\ storage = [k \in StorageKeys |-> Absent]
  /\ remote \in InitRemotes
  /\ buffer = [c \in Namespaces |-> <<>>]
  /\ pc = [o \in Ops |-> "idle"]
  /\ call = [o \in Ops |-> NoCall]
  /\ doc = [o \in Ops |-> Undef]
  /\ ret = [o \in Ops |-> Undef]
  /\ flushBuf = [o \in Ops |-> NoBuf]
  /\ gwLog = [o \in Ops |-> <<>>]
  /\ sv = [o \in Ops |-> NoSave]
  /\ seen = [o \in Ops |-> "none"]
  /\ pre = [o \in Ops |-> NoPre]
  /\ clean = [o \in Ops |-> TRUE]
  /\ lastRead = [c \in Namespaces |-> NoRead]
  /\ overlapped = [c \in Namespaces |-> FALSE]
  /\ failed = [c \in Namespaces |-> FALSE]
  /\ hydFetch = [c \in Namespaces |-> 0]
  /\ created = [c \in Namespaces |-> 0]
  /\ calls = 0
  /\ failures = 0
  /\ promise_queue = <<>>
  /\ running = NoRunning
  /\ cloud_ready = <<>>

(* ----------------------- what a function computes --------------------- *)

\* _getObjFromData(obj, data) of getUserConfigObj
RECURSIVE getObjFromData(_, _)
getObjFromData(obj, data) ==
  IF obj = <<>> THEN EmptyObj
  ELSE LET e == obj[Len(obj)]
       IN  SetProp(getObjFromData(SubSeq(obj, 1, Len(obj) - 1), data),
                   e[1], Coalesce(pickValue(data, e[1]), e[2]))

\* the value a read resolves with from the object data
readResult(cl, data) ==
  IF cl.kind = "getUserConfig"
  THEN Coalesce(pickValue(data, cl.key), cl.default_value)
  ELSE getObjFromData(cl.obj, data)

\* the <<key, value>> entries a write puts, in order
writeEntries(cl, buf) ==
  IF cl.kind = "setUserConfig" THEN << <<cl.key, cl.value>> >>
  ELSE IF cl.kind = "setUserConfigObj" THEN cl.obj
  ELSE buf

\* putEntries into a new object in place of data
RECURSIVE putEntriesAlone(_, _)
putEntriesAlone(data, entries) ==
  IF entries = <<>> THEN EmptyObj
  ELSE putValue(putEntriesAlone(data, SubSeq(entries, 1, Len(entries) - 1)),
                entries[Len(entries)][1], entries[Len(entries)][2], FALSE)

\* putEntries leaving the loop after the first entry
putEntriesFirst(data, entries) ==
  IF entries = <<>> THEN data
  ELSE putValue(data, entries[1][1], entries[1][2], FALSE)

\* for (key in entries) _.putValue(data, key, entries[key], {remove_undefined: false})
RECURSIVE putEntries(_, _)
putEntries(data, entries) ==
  IF entries = <<>> \/ data.t = "error" THEN data
  ELSE putEntries(putValue(data, entries[1][1], entries[1][2], FALSE), Tail(entries))

\* mustSave reading data[key] in place of pickValue(data, key)
mustSaveFlatKey(cl, data) ==
  IF cl.kind = "setUserConfig"
  THEN cl.skip_equal \/ ~isEqual(Prop(data, cl.key), cl.value)
  ELSE IF cl.kind = "setUserConfigObj"
  THEN cl.skip_equal
       \/ \E i \in 1..Len(cl.obj) : ~isEqual(Prop(data, cl.obj[i][1]), cl.obj[i][2])
  ELSE TRUE

\* mustSave with every in place of some for setUserConfigObj
mustSaveEvery(cl, data) ==
  IF cl.kind = "setUserConfig"
  THEN cl.skip_equal \/ ~isEqual(pickValue(data, cl.key), cl.value)
  ELSE IF cl.kind = "setUserConfigObj"
  THEN cl.skip_equal
       \/ \A i \in 1..Len(cl.obj) : ~isEqual(pickValue(data, cl.obj[i][1]), cl.obj[i][2])
  ELSE TRUE

\* mustSave comparing the entries of the buffer as setUserConfigObj compares obj
mustSaveSuppressFlush(cl, data) ==
  IF cl.kind = "setUserConfig"
  THEN cl.skip_equal \/ ~isEqual(pickValue(data, cl.key), cl.value)
  ELSE IF cl.kind = "setUserConfigObj"
  THEN cl.skip_equal
       \/ \E i \in 1..Len(cl.obj) : ~isEqual(pickValue(data, cl.obj[i][1]), cl.obj[i][2])
  ELSE \E i \in 1..Len(buffer[cl.c]) :
         ~isEqual(pickValue(data, buffer[cl.c][i][1]), buffer[cl.c][i][2])

\* mustSave comparing the values also when skip_equal is given
mustSaveIgnoresSkip(cl, data) ==
  IF cl.kind = "setUserConfig"
  THEN ~isEqual(pickValue(data, cl.key), cl.value)
  ELSE IF cl.kind = "setUserConfigObj"
  THEN \E i \in 1..Len(cl.obj) : ~isEqual(pickValue(data, cl.obj[i][1]), cl.obj[i][2])
  ELSE TRUE

\* the condition under which a write goes on to save
mustSave(cl, data) ==
  IF cl.kind = "setUserConfig"
  THEN cl.skip_equal \/ ~isEqual(pickValue(data, cl.key), cl.value)
  ELSE IF cl.kind = "setUserConfigObj"
  THEN cl.skip_equal
       \/ \E i \in 1..Len(cl.obj) : ~isEqual(pickValue(data, cl.obj[i][1]), cl.obj[i][2])
  ELSE TRUE

\* the doc a write compares with after getMyOne answered doc
hydratedDoc(cl, d) ==
  LET d0 == IF d.t = "null" THEN newDoc(cl.c) ELSE d
  IN  IF cl.kind = "setUserConfigObj" THEN stripReserved(d0) ELSE d0

\* loadedDoc keeping _id and _openid
loadedDocRaw(c, d) == IF d.t = "null" THEN newDoc(c) ELSE d

\* _loadFromCloud: the doc that goes to Storage after getMyOne answered d
loadedDoc(c, d) == IF d.t = "null" THEN newDoc(c) ELSE stripReserved(d)

\* setStorage that succeeds without writing
setStorageLost(st, key, data) == st

\* wx Storage after setStorage(key, data) succeeded
setStorage(st, key, data) == [st EXCEPT ![key] = data]

\* getStorage taking an empty object for no data
getStorageFoundNonEmpty(stored) == stored.t # "absent" /\ ~isEmpty(stored)

\* if (res.data) in getStorage
getStorageFound(stored) == stored.t # "absent"

\* the value a write resolves with
writeResolved(cl) == IF cl.kind = "flushUserConfigBuffer" THEN Undef ELSE S("true")

\* where a function goes when getMyOne, called because Storage had no data, fails
afterFetchFailed(kind) == IF kind \in ReadKinds THEN "rejected" ELSE "hung"

\* afterSaveStorage going on to updateMyMatch whatever setStorage answered
afterSaveStorageAlways(ok) == "update"

\* where _saveUserConfigToStorageAndCloudDB goes when setStorage answered
afterSaveStorage(ok) == IF ok THEN "update" ELSE "hung"

\* afterGatewayFailed with no catch on updateMyMatch
afterGatewayFailedNoCatch(step) == IF step = "update" THEN "hung" ELSE "rejected"

\* where it goes when the database call of step fails: each has a catch that
\* rejects
afterGatewayFailed(step) == "rejected"

\* afterUpdate taking an answer of 0 for a record that was updated
afterUpdateNoCheck(updated) == IF updated >= 0 THEN "resolved" ELSE "existsCheck"

\* where it goes when updateMyMatch answered updated
afterUpdate(updated) == IF updated > 0 THEN "resolved" ELSE "existsCheck"

\* afterExists with the test inverted
afterExistsInverted(exists) == IF exists THEN "addDoc" ELSE "resolved"

\* where it goes when getMyOne answered whether a record exists
afterExists(exists) == IF ~exists THEN "addDoc" ELSE "resolved"

(* ------------------------------- helpers ------------------------------ *)

Stored(c) == storage[storage_key(c)]

\* the buffer object a flush iterates over
bufferOf(o) == IF flushBuf[o].live THEN buffer[call[o].c] ELSE flushBuf[o].b

\* flushes that hold the buffer object of a collection in cs keep that object
\* when _user_config_buffer drops it
detached(cs) ==
  [p \in Ops |-> IF flushBuf[p].live /\ call[p].c \in cs
                 THEN [live |-> FALSE, b |-> buffer[call[p].c]]
                 ELSE flushBuf[p]]

\* bufferCleared emptying the buffer of every collection
bufferClearedAll(b, cs) == [c \in Namespaces |-> <<>>]

\* _user_config_buffer after clearUserConfigBuffer: of c for cs = {c}, of
\* null for cs = Namespaces
bufferCleared(b, cs) == [c \in Namespaces |-> IF c \in cs THEN <<>> ELSE b[c]]

\* flushable taking a missing buffer for one with entries
flushableAlways(b) == TRUE

\* flushUserConfigBuffer goes on: the buffer is an object and is not empty
flushable(b) == b # <<>>

\* bufferPut through putValue: a dotted key becomes a nested object
bufferPutNested(b, key, value) ==
  LET ks == split(key, ".")
      k == ks[1]
      v == IF Len(ks) = 1 THEN value ELSE SetProp(EmptyObj, ks[2], value)
  IN  IF \E i \in 1..Len(b) : b[i][1] = k
      THEN [i \in 1..Len(b) |-> IF b[i][1] = k THEN <<k, v>> ELSE b[i]]
      ELSE Append(b, <<k, v>>)

\* buffer[c][key] = value
bufferPut(b, key, value) ==
  IF \E i \in 1..Len(b) : b[i][1] = key
  THEN [i \in 1..Len(b) |-> IF b[i][1] = key THEN <<key, value>> ELSE b[i]]
  ELSE Append(b, <<key, value>>)

\* slot o can take a new call: its last call is over, and the slots before it
\* are busy
Free(o) == ~InFlight(o) /\ \A p \in Ops : p < o => InFlight(p)

\* the call cl is issued and runs in slot o
Issue(o, cl) ==
  /\ calls < MaxCalls
  /\ calls' = calls + 1
  /\ call' = [call EXCEPT ![o] = cl]
  /\ pc' = [pc EXCEPT ![o] = "getStorage"]
  /\ LET busy == \E p \in Ops \ {o} : InFlight(p) /\ call[p].c = cl.c
         rd == lastRead[cl.c]
         follows == /\ cl.kind = "setUserConfig" /\ ~cl.skip_equal
                    /\ rd.valid /\ rd.key = cl.key /\ rd.v = cl.value
     IN  /\ overlapped' = [overlapped EXCEPT ![cl.c] = @ \/ busy]
         /\ clean' = [p \in Ops |-> IF p = o THEN ~busy
                                    ELSE IF call[p].c = cl.c THEN FALSE
                                    ELSE clean[p]]
         /\ pre' = [pre EXCEPT ![o] = [snap |-> Stored(cl.c) # Absent,
                                       rec |-> remote[cl.c] # <<>>,
                                       fresh |-> loadedDoc(cl.c, dbGetOne(remote[cl.c])),
                                       read |-> IF follows THEN rd ELSE NoRead,
                                       staged |-> IF cl.kind = "flushUserConfigBuffer"
                                                  THEN buffer[cl.c] ELSE <<>>]]
  /\ lastRead' = [lastRead EXCEPT ![cl.c] = NoRead]
  /\ doc' = [doc EXCEPT ![o] = Undef]
  /\ ret' = [ret EXCEPT ![o] = Undef]
  /\ gwLog' = [gwLog EXCEPT ![o] = <<>>]
  /\ sv' = [sv EXCEPT ![o] = NoSave]
  /\ seen' = [seen EXCEPT ![o] = "none"]
  /\ UNCHANGED <<storage, remote, buffer, failed, hydFetch, created, failures>>

\* a call is issued in the first slot that is free
Begin(o, cl) == Free(o) /\ Issue(o, cl)

\* the promise of a read in slot o resolves with the value picked from data
ReadResolves(o, data) ==
  LET cl == call[o]
  IN  /\ pc' = [pc EXCEPT ![o] = "resolved"]
      /\ ret' = [ret EXCEPT ![o] = readResult(cl, data)]
      /\ lastRead' = IF cl.kind = "getUserConfig" /\ clean[o]
                     THEN [lastRead EXCEPT ![cl.c] =
                             [valid |-> TRUE, key |-> cl.key,
                              v |-> readResult(cl, data),
                              stored |-> pickValue(data, cl.key)]]
                     ELSE lastRead

\* the promise of a write in slot o resolves after its save; a flush clears
\* the buffer of its collection first
WriteResolves(o) ==
  LET cl == call[o]
  IN  /\ pc' = [pc EXCEPT ![o] = "resolved"]
      /\ ret' = [ret EXCEPT ![o] = writeResolved(cl)]
      /\ IF cl.kind = "flushUserConfigBuffer"
         THEN /\ buffer' = bufferCleared(buffer, {cl.c})
              /\ flushBuf' = detached({cl.c})
         ELSE UNCHANGED <<buffer, flushBuf>>

\* the call in slot o ends in state st without a value
Ends(o, st) ==
  /\ pc' = [pc EXCEPT ![o] = st]
  /\ failed' = [failed EXCEPT ![call[o].c] = TRUE]

\* a Storage or database call of slot o fails and the call ends in state st
Fails(o, st) ==
  /\ failures < MaxFailures
  /\ failures' = failures + 1
  /\ Ends(o, st)

\* _saveUserConfigToStorageAndCloudDB(c, d) is entered: setStorage is called
\* with d after its reserved fields are removed
Saves(o, d) ==
  /\ doc' = [doc EXCEPT ![o] = stripReserved(d)]
  /\ pc' = [pc EXCEPT ![o] = "saveSetStorage"]

\* getMyOne is called because Storage gave no data
Fetches(o) ==
  /\ pc' = [pc EXCEPT ![o] = "getMyOne"]
  /\ gwLog' = [gwLog EXCEPT ![o] = Append(@, "getMyOne")]
  /\ hydFetch' = [hydFetch EXCEPT ![call[o].c] = @ + 1]

(* --------------------------- calls are issued ------------------------- *)

getUserConfig(o) ==
  \E c \in Namespaces, key \in Keys, dv \in DefaultVals :
    /\ Begin(o, [NoCall EXCEPT !.kind = "getUserConfig", !.c = c, !.key = key,
                               !.default_value = dv])
    /\ flushBuf' = [flushBuf EXCEPT ![o] = NoBuf]
    /\ UNCHANGED aside

getUserConfigObj(o) ==
  \E c \in Namespaces, obj \in GetObjs :
    /\ Begin(o, [NoCall EXCEPT !.kind = "getUserConfigObj", !.c = c, !.obj = obj])
    /\ flushBuf' = [flushBuf EXCEPT ![o] = NoBuf]
    /\ UNCHANGED aside

setUserConfig(o) ==
  \E c \in Namespaces, key \in Keys, value \in WriteVals, skip \in BOOLEAN :
    /\ Begin(o, [NoCall EXCEPT !.kind = "setUserConfig", !.c = c, !.key = key,
                               !.value = value, !.skip_equal = skip])
    /\ flushBuf' = [flushBuf EXCEPT ![o] = NoBuf]
    /\ UNCHANGED aside

setUserConfigObj(o) ==
  \E c \in Namespaces, obj \in SetObjs, skip \in BOOLEAN :
    /\ Begin(o, [NoCall EXCEPT !.kind = "setUserConfigObj", !.c = c, !.obj = obj,
                               !.skip_equal = skip])
    /\ flushBuf' = [flushBuf EXCEPT ![o] = NoBuf]
    /\ UNCHANGED aside

setUserConfigBuffer ==
  \E c \in Namespaces, key \in Keys, value \in WriteVals :
    /\ calls < MaxCalls
    /\ calls' = calls + 1
    /\ buffer' = [buffer EXCEPT ![c] = bufferPut(@, key, value)]
    /\ UNCHANGED <<storage, remote, pc, call, doc, ret, flushBuf, gwLog, sv, seen,
                   pre, clean, lastRead, overlapped, failed, hydFetch, created, failures>>
    /\ UNCHANGED aside

\* clearUserConfigBuffer(c) for cs = {c}, clearUserConfigBuffer(null) for all
clearUserConfigBuffer ==
  \E cs \in {{c} : c \in Namespaces} \cup {Namespaces} :
    /\ calls < MaxCalls
    /\ calls' = calls + 1
    /\ buffer' = bufferCleared(buffer, cs)
    /\ flushBuf' = detached(cs)
    /\ UNCHANGED <<storage, remote, pc, call, doc, ret, gwLog, sv, seen, pre,
                   clean, lastRead, overlapped, failed, hydFetch, created, failures>>
    /\ UNCHANGED aside

\* flushUserConfigBuffer with entries in the buffer
flushUserConfigBuffer(o) ==
  \E c \in Namespaces :
    /\ flushable(buffer[c])
    /\ Begin(o, [NoCall EXCEPT !.kind = "flushUserConfigBuffer", !.c = c])
    /\ flushBuf' = [flushBuf EXCEPT ![o] = [live |-> TRUE, b |-> <<>>]]
    /\ UNCHANGED aside

\* flushUserConfigBuffer with no entries: return Promise.resolve()
flushEmptyBuffer(o) ==
  \E c \in Namespaces :
    /\ ~flushable(buffer[c])
    /\ Free(o)
    /\ calls < MaxCalls
    /\ calls' = calls + 1
    /\ call' = [call EXCEPT ![o] = [NoCall EXCEPT !.kind = "flushUserConfigBuffer",
                                                  !.c = c]]
    /\ pc' = [pc EXCEPT ![o] = "resolved"]
    /\ doc' = [doc EXCEPT ![o] = Undef]
    /\ ret' = [ret EXCEPT ![o] = Undef]
    /\ flushBuf' = [flushBuf EXCEPT ![o] = NoBuf]
    /\ gwLog' = [gwLog EXCEPT ![o] = <<>>]
    /\ sv' = [sv EXCEPT ![o] = NoSave]
    /\ seen' = [seen EXCEPT ![o] = "none"]
    /\ pre' = [pre EXCEPT ![o] = NoPre]
    /\ clean' = [clean EXCEPT ![o] = TRUE]
    /\ UNCHANGED <<storage, remote, buffer, lastRead, overlapped, failed,
                   hydFetch, created, failures>>
    /\ UNCHANGED aside

(* ------------------------- getStorage answers ------------------------- *)

\* a read finds data in Storage and resolves from it
readFromStorage(o) ==
  /\ pc[o] = "getStorage"
  /\ call[o].kind \in ReadKinds
  /\ getStorageFound(Stored(call[o].c))
  /\ doc' = [doc EXCEPT ![o] = Stored(call[o].c)]
  /\ seen' = [seen EXCEPT ![o] = "found"]
  /\ ReadResolves(o, Stored(call[o].c))
  /\ UNCHANGED <<storage, remote, buffer, call, flushBuf, gwLog, sv, pre, clean,
                 overlapped, failed, hydFetch, created, calls, failures>>
  /\ UNCHANGED aside

\* a write finds data in Storage: it resolves false, saves, or, when putValue
\* throws, falls into the catch branch that reads the database
writeFromStorage(o) ==
  /\ pc[o] = "getStorage"
  /\ call[o].kind \in WriteKinds
  /\ getStorageFound(Stored(call[o].c))
  /\ seen' = [seen EXCEPT ![o] = "found"]
  /\ LET cl == call[o]
         data == Stored(cl.c)
         d1 == putEntries(data, writeEntries(cl, bufferOf(o)))
     IN  IF ~mustSave(cl, data)
         THEN /\ pc' = [pc EXCEPT ![o] = "resolved"]
              /\ ret' = [ret EXCEPT ![o] = S("false")]
              /\ doc' = [doc EXCEPT ![o] = data]
              /\ UNCHANGED <<gwLog, hydFetch, failed>>
         ELSE IF d1.t = "error"
         THEN /\ Fetches(o)
              /\ doc' = [doc EXCEPT ![o] = data]
              /\ failed' = [failed EXCEPT ![cl.c] = TRUE]
              /\ UNCHANGED ret
         ELSE /\ Saves(o, d1)
              /\ UNCHANGED <<ret, gwLog, hydFetch, failed>>
  /\ sv' = [sv EXCEPT ![o].base = Stored(call[o].c),
                       ![o].put = writeEntries(call[o], bufferOf(o))]
  /\ UNCHANGED <<storage, remote, buffer, call, flushBuf, pre, clean,
                 lastRead, overlapped, created, calls, failures>>
  /\ UNCHANGED aside

\* Storage has no data: getMyOne is called
loadFromCloud(o) ==
  /\ pc[o] = "getStorage"
  /\ ~getStorageFound(Stored(call[o].c))
  /\ seen' = [seen EXCEPT ![o] = "absent"]
  /\ Fetches(o)
  /\ UNCHANGED <<storage, remote, buffer, call, doc, ret, flushBuf, sv, pre,
                 clean, lastRead, overlapped, failed, created, calls, failures>>
  /\ UNCHANGED aside

(* ---------------- getMyOne answers after Storage was empty ------------ *)

\* getMyOne fails: a read rejects; a write has no catch on this call
fetchFails(o) ==
  /\ pc[o] = "getMyOne"
  /\ Fails(o, afterFetchFailed(call[o].kind))
  /\ sv' = [sv EXCEPT ![o].gw = "hydrate"]
  /\ UNCHANGED <<storage, remote, buffer, call, doc, ret, flushBuf, gwLog,
                 seen, pre, clean, lastRead, overlapped, hydFetch, created, calls>>
  /\ UNCHANGED aside

\* _loadFromCloud of a read: the record, or the new doc, goes to setStorage
readFetched(o) ==
  /\ pc[o] = "getMyOne"
  /\ call[o].kind \in ReadKinds
  /\ doc' = [doc EXCEPT ![o] = loadedDoc(call[o].c, dbGetOne(remote[call[o].c]))]
  /\ pc' = [pc EXCEPT ![o] = "hydSetStorage"]
  /\ UNCHANGED <<storage, remote, buffer, call, ret, flushBuf, gwLog, sv, seen,
                 pre, clean, lastRead, overlapped, failed, hydFetch, created,
                 calls, failures>>
  /\ UNCHANGED aside

\* the catch branch of a write: compare with the record, then save it with
\* the new values or only store it; putValue throwing here is caught nowhere
writeFetched(o) ==
  /\ pc[o] = "getMyOne"
  /\ call[o].kind \in WriteKinds
  /\ LET cl == call[o]
         d0 == hydratedDoc(cl, dbGetOne(remote[cl.c]))
         d1 == putEntries(d0, writeEntries(cl, bufferOf(o)))
     IN  IF ~mustSave(cl, d0)
         THEN /\ doc' = [doc EXCEPT ![o] = stripReserved(d0)]
              /\ pc' = [pc EXCEPT ![o] = "hydSetStorage"]
              /\ UNCHANGED failed
         ELSE IF d1.t = "error"
         THEN /\ Ends(o, "hung")
              /\ UNCHANGED doc
         ELSE /\ Saves(o, d1)
              /\ UNCHANGED failed
  /\ sv' = [sv EXCEPT ![o].base = hydratedDoc(call[o], dbGetOne(remote[call[o].c])),
                       ![o].put = writeEntries(call[o], bufferOf(o))]
  /\ UNCHANGED <<storage, remote, buffer, call, ret, flushBuf, gwLog, seen,
                 pre, clean, lastRead, overlapped, hydFetch, created, calls, failures>>
  /\ UNCHANGED aside

\* setStorage of the fetched doc succeeds: the call resolves
hydStored(o) ==
  /\ pc[o] = "hydSetStorage"
  /\ storage' = setStorage(storage, storage_key(call[o].c), doc[o])
  /\ IF call[o].kind \in ReadKinds
     THEN ReadResolves(o, doc[o]) /\ UNCHANGED <<buffer, flushBuf>>
     ELSE WriteResolves(o) /\ UNCHANGED lastRead
  /\ UNCHANGED <<remote, call, doc, gwLog, sv, seen, pre, clean, overlapped,
                 failed, hydFetch, created, calls, failures>>
  /\ UNCHANGED aside

hydStoreFails(o) ==
  /\ pc[o] = "hydSetStorage"
  /\ Fails(o, "rejected")
  /\ UNCHANGED <<storage, remote, buffer, call, doc, ret, flushBuf, gwLog, sv,
                 seen, pre, clean, lastRead, overlapped, hydFetch, created, calls>>
  /\ UNCHANGED aside

(* ----------------- _saveUserConfigToStorageAndCloudDB ----------------- *)

\* setStorage(storage_key, doc) succeeds: updateMyMatch(c, {}, doc) is called
saveStored(o) ==
  /\ pc[o] = "saveSetStorage"
  /\ storage' = setStorage(storage, storage_key(call[o].c), doc[o])
  /\ sv' = [sv EXCEPT ![o].local = "ok", ![o].before = Len(gwLog[o])]
  /\ pc' = [pc EXCEPT ![o] = afterSaveStorage(TRUE)]
  /\ gwLog' = [gwLog EXCEPT ![o] = Append(@, "updateMyMatch")]
  /\ UNCHANGED <<remote, buffer, call, doc, ret, flushBuf, seen, pre, clean,
                 lastRead, overlapped, failed, hydFetch, created, calls, failures>>
  /\ UNCHANGED aside

\* setStorage fails: the catch handler reads the undeclared name `value`,
\* so reject is never reached
saveStoreFails(o) ==
  /\ pc[o] = "saveSetStorage"
  /\ sv' = [sv EXCEPT ![o].local = "fail"]
  /\ Fails(o, afterSaveStorage(FALSE))
  /\ gwLog' = IF afterSaveStorage(FALSE) = "update"
              THEN [gwLog EXCEPT ![o] = Append(@, "updateMyMatch")]
              ELSE gwLog
  /\ UNCHANGED <<storage, remote, buffer, call, doc, ret, flushBuf, seen, pre,
                 clean, lastRead, overlapped, hydFetch, created, calls>>
  /\ UNCHANGED aside

\* updateMyMatch answers: resolve when it updated a record, else getMyOne
updateAnswered(o) ==
  /\ pc[o] = "update"
  /\ LET c == call[o].c
         n == dbUpdated(remote[c], doc[o])
     IN  /\ remote' = [remote EXCEPT ![c] = dbUpdate(@, doc[o])]
         /\ sv' = [sv EXCEPT ![o].updated = n]
         /\ IF afterUpdate(n) = "resolved"
            THEN WriteResolves(o) /\ UNCHANGED gwLog
            ELSE /\ pc' = [pc EXCEPT ![o] = afterUpdate(n)]
                 /\ gwLog' = [gwLog EXCEPT ![o] = Append(@, "getMyOne")]
                 /\ UNCHANGED <<ret, buffer, flushBuf>>
  /\ UNCHANGED <<storage, call, doc, seen, pre, clean, lastRead, overlapped,
                 failed, hydFetch, created, calls, failures>>
  /\ UNCHANGED aside

updateFails(o) ==
  /\ pc[o] = "update"
  /\ Fails(o, afterGatewayFailed("update"))
  /\ sv' = [sv EXCEPT ![o].gw = "write"]
  /\ UNCHANGED <<storage, remote, buffer, call, doc, ret, flushBuf, gwLog,
                 seen, pre, clean, lastRead, overlapped, hydFetch, created, calls>>
  /\ UNCHANGED aside

\* getMyOne answers whether a record exists: addDoc when there is none
existsAnswered(o) ==
  /\ pc[o] = "existsCheck"
  /\ LET exists == dbGetOne(remote[call[o].c]).t # "null"
     IN  /\ sv' = [sv EXCEPT ![o].exists = IF exists THEN "yes" ELSE "no"]
         /\ IF afterExists(exists) = "resolved"
            THEN WriteResolves(o) /\ UNCHANGED gwLog
            ELSE /\ pc' = [pc EXCEPT ![o] = afterExists(exists)]
                 /\ gwLog' = [gwLog EXCEPT ![o] = Append(@, "addDoc")]
                 /\ UNCHANGED <<ret, buffer, flushBuf>>
  /\ UNCHANGED <<storage, remote, call, doc, seen, pre, clean, lastRead,
                 overlapped, failed, hydFetch, created, calls, failures>>
  /\ UNCHANGED aside

existsFails(o) ==
  /\ pc[o] = "existsCheck"
  /\ Fails(o, afterGatewayFailed("existsCheck"))
  /\ sv' = [sv EXCEPT ![o].gw = "write"]
  /\ UNCHANGED <<storage, remote, buffer, call, doc, ret, flushBuf, gwLog,
                 seen, pre, clean, lastRead, overlapped, hydFetch, created, calls>>
  /\ UNCHANGED aside

\* addDoc(c, doc) succeeds
docAdded(o) ==
  /\ pc[o] = "addDoc"
  /\ remote' = [remote EXCEPT ![call[o].c] = dbAdd(@, doc[o])]
  /\ created' = [created EXCEPT ![call[o].c] = @ + 1]
  /\ WriteResolves(o)
  /\ UNCHANGED <<storage, call, doc, gwLog, sv, seen, pre, clean, lastRead,
                 overlapped, failed, hydFetch, calls, failures>>
  /\ UNCHANGED aside

addDocFails(o) ==
  /\ pc[o] = "addDoc"
  /\ Fails(o, afterGatewayFailed("addDoc"))
  /\ sv' = [sv EXCEPT ![o].gw = "write"]
  /\ UNCHANGED <<storage, remote, buffer, call, doc, ret, flushBuf, gwLog,
                 seen, pre, clean, lastRead, overlapped, hydFetch, created, calls>>
  /\ UNCHANGED aside

(* ------------------------------ the rest ------------------------------ *)

\* removeStorageSync('s_' + c): the snapshot of c is deleted
removeStorageSync ==
  \E c \in Namespaces :
    /\ Stored(c) # Absent
    /\ \A o \in Ops : ~InFlight(o)
    /\ storage' = [storage EXCEPT ![storage_key(c)] = Absent]
    /\ hydFetch' = [hydFetch EXCEPT ![c] = 0]
    /\ clean' = [p \in Ops |-> IF call[p].c = c THEN FALSE ELSE clean[p]]
    /\ lastRead' = [lastRead EXCEPT ![c] = NoRead]
    /\ UNCHANGED <<remote, buffer, pc, call, doc, ret, flushBuf, gwLog, sv, seen,
                   pre, overlapped, failed, created, calls, failures>>
    /\ UNCHANGED aside

Next ==
  \/ \E o \in Ops : getUserConfig(o)
  \/ \E o \in Ops : getUserConfigObj(o)
  \/ \E o \in Ops : setUserConfig(o)
  \/ \E o \in Ops : setUserConfigObj(o)
  \/ setUserConfigBuffer
  \/ clearUserConfigBuffer
  \/ \E o \in Ops : flushUserConfigBuffer(o)
  \/ \E o \in Ops : flushEmptyBuffer(o)
  \/ \E o \in Ops : readFromStorage(o)
  \/ \E o \in Ops : writeFromStorage(o)
  \/ \E o \in Ops : loadFromCloud(o)
  \/ \E o \in Ops : fetchFails(o)
  \/ \E o \in Ops : readFetched(o)
  \/ \E o \in Ops : writeFetched(o)
  \/ \E o \in Ops : hydStored(o)
  \/ \E o \in Ops : hydStoreFails(o)
  \/ \E o \in Ops : saveStored(o)
  \/ \E o \in Ops : saveStoreFails(o)
  \/ \E o \in Ops : updateAnswered(o)
  \/ \E o \in Ops : updateFails(o)
  \/ \E o \in Ops : existsAnswered(o)
  \/ \E o \in Ops : existsFails(o)
  \/ \E o \in Ops : docAdded(o)
  \/ \E o \in Ops : addDocFails(o)
  \/ removeStorageSync

Spec == Init /\ [][Next]_vars

(* --------------- calls on a buffer that holds entries ---------------- *)

\* what setUserConfigBuffer calls have left in the buffer of one collection
StagedBuffers ==
  { <<>>,
    << <<KAB, S("1")>> >>,
    << <<KA, Null>>, <<KAB, S("1")>> >>,
    << <<KAB, S("1")>>, <<KC, S("1")>> >> }

InitBuf ==
  /\ remote \in InitRemotes
  /\ \E loaded \in BOOLEAN :
       /\ storage = [k \in StorageKeys |->
                       IF loaded
                       THEN LET c == CHOOSE n \in Namespaces : storage_key(n) = k
                            IN  loadedDoc(c, dbGetOne(remote[c]))
                       ELSE Absent]
       /\ hydFetch = [c \in Namespaces |-> IF loaded THEN 1 ELSE 0]
  /\ buffer \in [Namespaces -> StagedBuffers]
  /\ pc = [o \in Ops |-> "idle"]
  /\ call = [o \in Ops |-> NoCall]
  /\ doc = [o \in Ops |-> Undef]
  /\ ret = [o \in Ops |-> Undef]
  /\ flushBuf = [o \in Ops |-> NoBuf]
  /\ gwLog = [o \in Ops |-> <<>>]
  /\ sv = [o \in Ops |-> NoSave]
  /\ seen = [o \in Ops |-> "none"]
  /\ pre = [o \in Ops |-> NoPre]
  /\ clean = [o \in Ops |-> TRUE]
  /\ lastRead = [c \in Namespaces |-> NoRead]
  /\ overlapped = [c \in Namespaces |-> FALSE]
  /\ failed = [c \in Namespaces |-> FALSE]
  /\ created = [c \in Namespaces |-> 0]
  /\ calls = 0
  /\ failures = 0
  /\ promise_queue = <<>>
  /\ running = NoRunning
  /\ cloud_ready = <<>>

NextBuf ==
  \/ setUserConfigBuffer
  \/ clearUserConfigBuffer
  \/ \E o \in Ops : flushUserConfigBuffer(o)
  \/ \E o \in Ops : flushEmptyBuffer(o)
  \/ \E o \in Ops : writeFromStorage(o)
  \/ \E o \in Ops : loadFromCloud(o)
  \/ \E o \in Ops : fetchFails(o)
  \/ \E o \in Ops : writeFetched(o)
  \/ \E o \in Ops : saveStored(o)
  \/ \E o \in Ops : saveStoreFails(o)
  \/ \E o \in Ops : updateAnswered(o)
  \/ \E o \in Ops : updateFails(o)
  \/ \E o \in Ops : existsAnswered(o)
  \/ \E o \in Ops : existsFails(o)
  \/ \E o \in Ops : docAdded(o)
  \/ \E o \in Ops : addDocFails(o)

SpecBuf == InitBuf /\ [][NextBuf]_vars

(* ------------- two setUserConfig calls on different keys -------------- *)

\* the program before the two calls: Storage has no data yet, or holds for
\* every collection the doc an earlier getUserConfig loaded
InitPair ==
  /\ remote \in InitRemotes
  /\ \E loaded \in BOOLEAN :
       /\ storage = [k \in StorageKeys |->
                       IF loaded
                       THEN LET c == CHOOSE n \in Namespaces : storage_key(n) = k
                            IN  loadedDoc(c, dbGetOne(remote[c]))
                       ELSE Absent]
       /\ hydFetch = [c \in Namespaces |-> IF loaded THEN 1 ELSE 0]
  /\ buffer = [c \in Namespaces |-> <<>>]
  /\ pc = [o \in Ops |-> "idle"]
  /\ call = [o \in Ops |-> NoCall]
  /\ doc = [o \in Ops |-> Undef]
  /\ ret = [o \in Ops |-> Undef]
  /\ flushBuf = [o \in Ops |-> NoBuf]
  /\ gwLog = [o \in Ops |-> <<>>]
  /\ sv = [o \in Ops |-> NoSave]
  /\ seen = [o \in Ops |-> "none"]
  /\ pre = [o \in Ops |-> NoPre]
  /\ clean = [o \in Ops |-> TRUE]
  /\ lastRead = [c \in Namespaces |-> NoRead]
  /\ overlapped = [c \in Namespaces |-> FALSE]
  /\ failed = [c \in Namespaces |-> FALSE]
  /\ created = [c \in Namespaces |-> 0]
  /\ calls = 0
  /\ failures = 0
  /\ promise_queue = <<>>
  /\ running = NoRunning
  /\ cloud_ready = <<>>

\* the key of the call in slot o
PairKey(o) == IF o = 1 THEN KAB ELSE KC

\* setUserConfig(c, PairKey(o), value): the first call in slot 1, the second,
\* on the same collection, in slot 2, whether or not the first has settled
setUserConfigOnKey(o) ==
  \E c \in Namespaces, value \in WriteVals :
    /\ pc[o] = "idle"
    /\ \A p \in Ops : p < o => (pc[p] # "idle" /\ call[p].c = c)
    /\ Issue(o, [NoCall EXCEPT !.kind = "setUserConfig", !.c = c,
                               !.key = PairKey(o), !.value = value])
    /\ flushBuf' = [flushBuf EXCEPT ![o] = NoBuf]
    /\ UNCHANGED aside

NextPair ==
  \/ \E o \in Ops : setUserConfigOnKey(o)
  \/ \E o \in Ops : writeFromStorage(o)
  \/ \E o \in Ops : loadFromCloud(o)
  \/ \E o \in Ops : writeFetched(o)
  \/ \E o \in Ops : hydStored(o)
  \/ \E o \in Ops : saveStored(o)
  \/ \E o \in Ops : updateAnswered(o)
  \/ \E o \in Ops : existsAnswered(o)
  \/ \E o \in Ops : docAdded(o)

SpecPair == InitPair /\ [][NextPair]_vars

(* ---------------- a setUserConfig repeated after it failed ------------- *)

\* setUserConfig(c, key, value, {skip_equal}) called again, in the other slot,
\* for the collection and key of a setUserConfig that was rejected because
\* updateMyMatch failed
retrySetUserConfig(o) ==
  \E p \in Ops \ {o}, value \in WriteVals, skip \in BOOLEAN :
    /\ pc[p] = "rejected"
    /\ call[p].kind = "setUserConfig"
    /\ sv[p].gw = "write"
    /\ pc[o] = "idle"
    /\ Issue(o, [call[p] EXCEPT !.value = value, !.skip_equal = skip])
    /\ flushBuf' = [flushBuf EXCEPT ![o] = NoBuf]
    /\ UNCHANGED aside

NextRetry ==
  \/ \E o \in Ops : setUserConfig(o)
  \/ \E o \in Ops : retrySetUserConfig(o)
  \/ \E o \in Ops : writeFromStorage(o)
  \/ \E o \in Ops : loadFromCloud(o)
  \/ \E o \in Ops : writeFetched(o)
  \/ \E o \in Ops : hydStored(o)
  \/ \E o \in Ops : saveStored(o)
  \/ \E o \in Ops : updateAnswered(o)
  \/ \E o \in Ops : updateFails(o)
  \/ \E o \in Ops : existsAnswered(o)
  \/ \E o \in Ops : docAdded(o)

SpecRetry == InitPair /\ [][NextRetry]_vars

(* --------------------------- pushUserConfig --------------------------- *)

KL == <<"l">>
TITLE == <<"title">>
DocA == SetProp(SetProp(EmptyObj, ID, S("x")), TITLE, S("A"))
DocB == SetProp(SetProp(EmptyObj, ID, S("x")), TITLE, S("B"))

\* the values pushed, the limits given (0 for null), and what the record of
\* the user holds under KL when the program starts
PushVals == {S("x"), DocB}
PushLimits == {0, 1, 2, 3}
PushStored == {Arr(<<DocA>>), Arr(<<S("x"), S("y")>>), S("1")}

\* a === b for two values that are not the same object
StrictEq(a, b) == a.t \in {"undefined", "null", "s"} /\ a = b

\* arr.some(item => item._id === doc._id), for items that are not null
includesDoc(arr, d) ==
  \E i \in 1..Len(arr.e) : StrictEq(Prop(arr.e[i], ID), Prop(d, ID))

\* arr.includes(value)
arrIncludes(arr, value) == \E i \in 1..Len(arr.e) : StrictEq(arr.e[i], value)

\* the element x of an array is value, or has the _id of the object value
sameElement(x, value) ==
  IF isObject(value) /\ StrictEq(Prop(x, ID), Prop(value, ID)) THEN TRUE
  ELSE StrictEq(x, value)

\* limited cutting at the end at which the value was put
limitedSameEnd(e, p) ==
  IF p.limit # 0 /\ Len(e) > p.limit
  THEN IF p.prepend THEN SubSeq(e, Len(e) - p.limit + 1, Len(e))
       ELSE SubSeq(e, 1, p.limit)
  ELSE e

\* data.slice(0, limit) or data.slice(data.length - limit) past the limit
limited(e, p) ==
  IF p.limit # 0 /\ Len(e) > p.limit
  THEN IF p.prepend THEN SubSeq(e, 1, p.limit)
       ELSE SubSeq(e, Len(e) - p.limit + 1, Len(e))
  ELSE e

\* pushResult taking the element out of the array and putting value in
pushResultMoves(data, p) ==
  LET rest == IF p.allow_repeat THEN data.e
              ELSE SelectSeq(data.e, LAMBDA x : ~sameElement(x, p.value))
      e1 == IF p.prepend THEN <<p.value>> \o rest ELSE Append(rest, p.value)
  IN  [write |-> TRUE, data |-> Arr(limited(e1, p))]

\* what pushUserConfig does with the array data it read: resolve with it as
\* it is, or unshift or push the value, cut to the limit and setUserConfig
pushResult(data, p) ==
  IF /\ ~p.allow_repeat
     /\ \/ isObject(p.value) /\ includesDoc(data, p.value)
        \/ arrIncludes(data, p.value)
  THEN [write |-> FALSE, data |-> data]
  ELSE LET e1 == IF p.prepend THEN <<p.value>> \o data.e ELSE Append(data.e, p.value)
       IN  [write |-> TRUE, data |-> Arr(limited(e1, p))]

\* arrayOf taking any value that is no array for no value
arrayOfAny(data) == IF ~isArray(data) THEN Arr(<<>>) ELSE data

\* if (_.isNone(data)) { data = [] }
arrayOf(data) == IF isNone(data) THEN Arr(<<>>) ELSE data

\* the values pullUserConfig is called with: an element, an object with an
\* _id, and an options object {count: 1} in the place of the value
ONE == S("1")
ZERO == S("0")
PopOne == SetProp(EmptyObj, <<"count">>, ONE)
PullVals == {S("x"), DocB, PopOne}

\* arr.findIndex(item => item._id === doc._id), from 1, or 0 for -1, for
\* items that are not null
docIndexOf(arr, d) ==
  LET hits == {i \in 1..Len(arr.e) : StrictEq(Prop(arr.e[i], ID), Prop(d, ID))}
  IN  IF hits = {} THEN 0 ELSE CHOOSE i \in hits : \A j \in hits : i <= j

\* arr.indexOf(value), from 1, or 0 for -1
indexOf(arr, value) ==
  LET hits == {i \in 1..Len(arr.e) : StrictEq(arr.e[i], value)}
  IN  IF hits = {} THEN 0 ELSE CHOOSE i \in hits : \A j \in hits : i <= j

\* data.splice(index, 1)
spliced(e, index) == [i \in 1..(Len(e) - 1) |-> IF i < index THEN e[i] ELSE e[i + 1]]

\* pullResult saving the array also when it has no such element
pullResultAlways(data, value) ==
  LET index == IF isObject(value) THEN docIndexOf(data, value)
               ELSE indexOf(data, value)
  IN  IF index > 0
      THEN [write |-> TRUE, data |-> Arr(spliced(data.e, index)), n |-> ONE]
      ELSE [write |-> TRUE, data |-> data, n |-> ZERO]

\* what pullUserConfig does with the array data it read: splice out the
\* element at the index found, setUserConfig and resolve 1, or resolve 0
pullResult(data, value) ==
  LET index == IF isObject(value) THEN docIndexOf(data, value)
               ELSE indexOf(data, value)
  IN  IF index > 0
      THEN [write |-> TRUE, data |-> Arr(spliced(data.e, index)), n |-> ONE]
      ELSE [write |-> FALSE, data |-> data, n |-> ZERO]

\* pushUserConfig and pullUserConfig calls are made one after the other
PushOps == {1}

\* a then of pushUserConfig is about to run in slot o
Pending(o) ==
  /\ pc[o] = "resolved" /\ call[o].push.on
  /\ call[o].kind \in {"getUserConfig", "setUserConfig"}

InitPush ==
  /\ remote \in {[c \in Namespaces |-> <<>>]} \cup
                { [c \in Namespaces |->
                     IF c = NS_CFG THEN << Record(SetProp(EmptyObj, KL, l), "id0") >>
                     ELSE <<>>] : l \in PushStored }
  /\ \E loaded \in BOOLEAN :
       /\ storage = [k \in StorageKeys |->
                       IF loaded
                       THEN LET c == CHOOSE n \in Namespaces : storage_key(n) = k
                            IN  loadedDoc(c, dbGetOne(remote[c]))
                       ELSE Absent]
       /\ hydFetch = [c \in Namespaces |-> IF loaded THEN 1 ELSE 0]
  /\ buffer = [c \in Namespaces |-> <<>>]
  /\ pc = [o \in Ops |-> "idle"]
  /\ call = [o \in Ops |-> NoCall]
  /\ doc = [o \in Ops |-> Undef]
  /\ ret = [o \in Ops |-> Undef]
  /\ flushBuf = [o \in Ops |-> NoBuf]
  /\ gwLog = [o \in Ops |-> <<>>]
  /\ sv = [o \in Ops |-> NoSave]
  /\ seen = [o \in Ops |-> "none"]
  /\ pre = [o \in Ops |-> NoPre]
  /\ clean = [o \in Ops |-> TRUE]
  /\ lastRead = [c \in Namespaces |-> NoRead]
  /\ overlapped = [c \in Namespaces |-> FALSE]
  /\ failed = [c \in Namespaces |-> FALSE]
  /\ created = [c \in Namespaces |-> 0]
  /\ calls = 0
  /\ failures = 0
  /\ promise_queue = <<>>
  /\ running = NoRunning
  /\ cloud_ready = <<>>

\* pushUserConfig(c, key, value, {allow_repeat, limit, prepend}) calls
\* getUserConfig(c, key)
pushUserConfig(o) ==
  \E value \in PushVals, allow_repeat \in BOOLEAN, limit \in PushLimits,
     prepend \in BOOLEAN :
    /\ \A p \in Ops : ~Pending(p)
    /\ Begin(o, [NoCall EXCEPT !.kind = "getUserConfig", !.c = NS_CFG, !.key = KL,
                               !.push = [on |-> TRUE, op |-> "push", value |-> value,
                                         allow_repeat |-> allow_repeat,
                                         limit |-> limit, prepend |-> prepend,
                                         read |-> Undef]])
    /\ flushBuf' = [flushBuf EXCEPT ![o] = NoBuf]
    /\ UNCHANGED aside

\* the then of getUserConfig: reject when the value is no array, resolve with
\* the array, or call setUserConfig(c, key, data)
pushThen(o) ==
  /\ pc[o] = "resolved" /\ call[o].kind = "getUserConfig"
  /\ call[o].push.on /\ call[o].push.op = "push"
  /\ LET cl == call[o]
         data == arrayOf(ret[o])
         over == [cl EXCEPT !.kind = "pushUserConfig", !.push.read = data]
     IN  IF ~isArray(data)
         THEN /\ call' = [call EXCEPT ![o] = over]
              /\ Ends(o, "rejected")
              /\ ret' = [ret EXCEPT ![o] = Err]
         ELSE IF ~pushResult(data, cl.push).write
         THEN /\ call' = [call EXCEPT ![o] = over]
              /\ ret' = [ret EXCEPT ![o] = data]
              /\ UNCHANGED <<pc, failed>>
         ELSE /\ call' = [call EXCEPT ![o] =
                            [cl EXCEPT !.kind = "setUserConfig",
                                       !.value = pushResult(data, cl.push).data,
                                       !.push.read = data]]
              /\ pc' = [pc EXCEPT ![o] = "getStorage"]
              /\ ret' = [ret EXCEPT ![o] = Undef]
              /\ UNCHANGED failed
  /\ UNCHANGED <<storage, remote, buffer, doc, flushBuf, gwLog, sv, seen, pre,
                 clean, lastRead, overlapped, hydFetch, created, calls, failures>>
  /\ UNCHANGED aside

\* the then of setUserConfig: resolve(data)
pushDone(o) ==
  /\ pc[o] = "resolved" /\ call[o].kind = "setUserConfig"
  /\ call[o].push.on /\ call[o].push.op = "push"
  /\ call' = [call EXCEPT ![o].kind = "pushUserConfig"]
  /\ ret' = [ret EXCEPT ![o] = call[o].value]
  /\ UNCHANGED <<storage, remote, buffer, pc, doc, flushBuf, gwLog, sv, seen,
                 pre, clean, lastRead, overlapped, failed, hydFetch, created,
                 calls, failures>>
  /\ UNCHANGED aside

\* pullUserConfig(c, key, value) calls getUserConfig(c, key)
pullUserConfig(o) ==
  \E value \in PullVals :
    /\ \A p \in Ops : ~Pending(p)
    /\ Begin(o, [NoCall EXCEPT !.kind = "getUserConfig", !.c = NS_CFG, !.key = KL,
                               !.push = [NoPush EXCEPT !.on = TRUE, !.op = "pull",
                                                       !.value = value]])
    /\ flushBuf' = [flushBuf EXCEPT ![o] = NoBuf]
    /\ UNCHANGED aside

\* the then of getUserConfig in pullUserConfig: reject when the value is no
\* array, resolve 0, or call setUserConfig(c, key, data)
pullThen(o) ==
  /\ pc[o] = "resolved" /\ call[o].kind = "getUserConfig"
  /\ call[o].push.on /\ call[o].push.op = "pull"
  /\ LET cl == call[o]
         data == arrayOf(ret[o])
         over == [cl EXCEPT !.kind = "pullUserConfig", !.push.read = data]
     IN  IF ~isArray(data)
         THEN /\ call' = [call EXCEPT ![o] = over]
              /\ Ends(o, "rejected")
              /\ ret' = [ret EXCEPT ![o] = Err]
         ELSE IF ~pullResult(data, cl.push.value).write
         THEN /\ call' = [call EXCEPT ![o] = over]
              /\ ret' = [ret EXCEPT ![o] = pullResult(data, cl.push.value).n]
              /\ UNCHANGED <<pc, failed>>
         ELSE /\ call' = [call EXCEPT ![o] =
                            [cl EXCEPT !.kind = "setUserConfig",
                                       !.value = pullResult(data, cl.push.value).data,
                                       !.push.read = data]]
              /\ pc' = [pc EXCEPT ![o] = "getStorage"]
              /\ ret' = [ret EXCEPT ![o] = Undef]
              /\ UNCHANGED failed
  /\ UNCHANGED <<storage, remote, buffer, doc, flushBuf, gwLog, sv, seen, pre,
                 clean, lastRead, overlapped, hydFetch, created, calls, failures>>
  /\ UNCHANGED aside

\* the then of setUserConfig in pullUserConfig: resolve(1)
pullDone(o) ==
  /\ pc[o] = "resolved" /\ call[o].kind = "setUserConfig"
  /\ call[o].push.on /\ call[o].push.op = "pull"
  /\ call' = [call EXCEPT ![o].kind = "pullUserConfig"]
  /\ ret' = [ret EXCEPT ![o] = ONE]
  /\ UNCHANGED <<storage, remote, buffer, pc, doc, flushBuf, gwLog, sv, seen,
                 pre, clean, lastRead, overlapped, failed, hydFetch, created,
                 calls, failures>>
  /\ UNCHANGED aside

NextPush ==
  \/ \E o \in PushOps : pushUserConfig(o)
  \/ \E o \in PushOps : pushThen(o)
  \/ \E o \in PushOps : pushDone(o)
  \/ \E o \in PushOps : pullUserConfig(o)
  \/ \E o \in PushOps : pullThen(o)
  \/ \E o \in PushOps : pullDone(o)
  \/ \E o \in PushOps : readFromStorage(o)
  \/ \E o \in PushOps : loadFromCloud(o)
  \/ \E o \in PushOps : fetchFails(o)
  \/ \E o \in PushOps : readFetched(o)
  \/ \E o \in PushOps : hydStored(o)
  \/ \E o \in PushOps : hydStoreFails(o)
  \/ \E o \in PushOps : writeFromStorage(o)
  \/ \E o \in PushOps : saveStored(o)
  \/ \E o \in PushOps : saveStoreFails(o)
  \/ \E o \in PushOps : updateAnswered(o)
  \/ \E o \in PushOps : updateFails(o)
  \/ \E o \in PushOps : existsAnswered(o)
  \/ \E o \in PushOps : existsFails(o)
  \/ \E o \in PushOps : docAdded(o)
  \/ \E o \in PushOps : addDocFails(o)

SpecPush == InitPush /\ [][NextPush]_vars

(* ---------------- putValue and pickValue on their own ----------------- *)

KABC == <<"a", ".", "b", ".", "c">>
B == <<"b">>
PathKeys == {KA, KAB, KABC}

\* the objects putValue is called with: null, undefined, and objects in which
\* the value under a is missing, null, a string, an array or an object, the
\* last of them {a: {b: ['1']}}
PathObjs ==
  {Null, Undef, EmptyObj,
   SetProp(EmptyObj, KA, S("1")),
   SetProp(EmptyObj, KA, Null),
   SetProp(EmptyObj, KA, Arr(<<>>)),
   SetProp(EmptyObj, KA, EmptyObj),
   SetProp(EmptyObj, KA, SetProp(EmptyObj, <<"b">>, S("1"))),
   SetProp(EmptyObj, KA,
           SetProp(EmptyObj, <<"b">>, SetProp(EmptyObj, <<"c">>, S("1")))),
   SetProp(EmptyObj, KA, SetProp(EmptyObj, <<"b">>, Arr(<<S("1")>>)))}

PathVals == {Undef, Null, S("1"), EmptyObj}

\* obj as putValue(obj, key, ...) leaves it when it throws: the missing
\* objects it made on the way down to the value that is no object stay
RECURSIVE thrownWalk(_, _)
thrownWalk(current, ks) ==
  IF ~isObject(current) \/ Len(ks) = 1 THEN current
  ELSE LET child == Prop(current, ks[1])
       IN  SetProp(current, ks[1],
                   thrownWalk(IF isNone(child) THEN EmptyObj ELSE child, Tail(ks)))

putThrown(obj, key) ==
  IF includes(key, ".") THEN thrownWalk(obj, split(key, ".")) ELSE obj

PathOps == {1}

InitPath ==
  /\ doc \in {[o \in Ops |-> IF o \in PathOps THEN obj ELSE Undef] : obj \in PathObjs}
  /\ remote = [c \in Namespaces |-> <<>>]
  /\ storage = [k \in StorageKeys |-> Absent]
  /\ hydFetch = [c \in Namespaces |-> 0]
  /\ buffer = [c \in Namespaces |-> <<>>]
  /\ pc = [o \in Ops |-> "idle"]
  /\ call = [o \in Ops |-> NoCall]
  /\ ret = [o \in Ops |-> Undef]
  /\ flushBuf = [o \in Ops |-> NoBuf]
  /\ gwLog = [o \in Ops |-> <<>>]
  /\ sv = [o \in Ops |-> NoSave]
  /\ seen = [o \in Ops |-> "none"]
  /\ pre = [o \in Ops |-> NoPre]
  /\ clean = [o \in Ops |-> TRUE]
  /\ lastRead = [c \in Namespaces |-> NoRead]
  /\ overlapped = [c \in Namespaces |-> FALSE]
  /\ failed = [c \in Namespaces |-> FALSE]
  /\ created = [c \in Namespaces |-> 0]
  /\ calls = 0
  /\ failures = 0
  /\ promise_queue = <<>>
  /\ running = NoRunning
  /\ cloud_ready = <<>>

\* putValue(obj, key, value, {remove_undefined}) runs on the object doc[o],
\* which sv[o].base keeps as it was before: it returns or throws
runPutValue(o, cl, to) ==
  /\ calls < MaxCalls
  /\ calls' = calls + 1
  /\ call' = [call EXCEPT ![o] = cl]
  /\ sv' = [sv EXCEPT ![o].base = doc[o]]
  /\ ret' = [ret EXCEPT ![o] = Undef]
  /\ LET r == putValue(doc[o], cl.key, cl.value, cl.remove_undefined)
     IN  IF r.t = "error"
         THEN /\ doc' = [doc EXCEPT ![o] = putThrown(doc[o], cl.key)]
              /\ pc' = [pc EXCEPT ![o] = "threw"]
         ELSE /\ doc' = [doc EXCEPT ![o] = r]
              /\ pc' = [pc EXCEPT ![o] = to]
  /\ UNCHANGED <<storage, remote, buffer, flushBuf, gwLog, seen, pre, clean,
                 lastRead, overlapped, failed, hydFetch, created, failures>>

\* utils.putValue(obj, key, value, {remove_undefined})
callPutValue(o) ==
  \E key \in PathKeys, value \in PathVals, remove_undefined \in BOOLEAN :
    /\ pc[o] \in {"idle", "returned", "repeated", "picked"}
    /\ runPutValue(o, [NoCall EXCEPT !.kind = "putValue", !.key = key,
                                     !.value = value,
                                     !.remove_undefined = remove_undefined],
                   "returned")
    /\ UNCHANGED aside

\* the same putValue call once more
repeatPutValue(o) ==
  /\ pc[o] \in {"returned", "picked"} /\ call[o].kind = "putValue"
  /\ runPutValue(o, call[o], "repeated")
  /\ UNCHANGED aside

\* utils.pickValue(obj, key) with the key of the putValue call before
callPickValue(o) ==
  /\ pc[o] \in {"returned", "repeated"} /\ call[o].kind = "putValue"
  /\ ret' = [ret EXCEPT ![o] = pickValue(doc[o], call[o].key)]
  /\ pc' = [pc EXCEPT ![o] = "picked"]
  /\ UNCHANGED <<storage, remote, buffer, call, doc, flushBuf, gwLog, sv, seen,
                 pre, clean, lastRead, overlapped, failed, hydFetch, created,
                 calls, failures>>
  /\ UNCHANGED aside

\* utils.pickValue(obj, key) on an object as it is given: it returns or throws
pickValueAlone(o) ==
  \E key \in PathKeys :
    /\ pc[o] = "idle"
    /\ calls < MaxCalls
    /\ calls' = calls + 1
    /\ call' = [call EXCEPT ![o] = [NoCall EXCEPT !.kind = "pickValue", !.key = key]]
    /\ LET r == pickValue(doc[o], key)
       IN  IF r.t = "error"
           THEN /\ pc' = [pc EXCEPT ![o] = "threw"]
                /\ UNCHANGED ret
           ELSE /\ pc' = [pc EXCEPT ![o] = "picked"]
                /\ ret' = [ret EXCEPT ![o] = r]
    /\ UNCHANGED <<storage, remote, buffer, doc, flushBuf, gwLog, sv, seen, pre,
                   clean, lastRead, overlapped, failed, hydFetch, created, failures>>
    /\ UNCHANGED aside

\* an object literal given as obj_value: its properties in the order of
\* for-in, each a <<key, value>> in which an object value is again a Lit
Lit(es) == [t |-> "o", es |-> es]

\* the obj_value arguments of putObj: {a: {b: '1'}}, {'a.b': '1'},
\* {a: {b: '1'}, 'a.b': '2'}, {'a.b': '2', a: {b: '1'}}, {a: {'b.c': '1'}},
\* {'a.b': {c: '1'}}, {c: '1', a: {}}, {a: '1', 'a.b': '2'},
\* {a: {b: undefined}, c: null}
PathMaps ==
  { << <<KA, Lit(<< <<B, S("1")>> >>)>> >>,
    << <<KAB, S("1")>> >>,
    << <<KA, Lit(<< <<B, S("1")>> >>)>>, <<KAB, S("2")>> >>,
    << <<KAB, S("2")>>, <<KA, Lit(<< <<B, S("1")>> >>)>> >>,
    << <<KA, Lit(<< <<B \o <<".">> \o KC, S("1")>> >>)>> >>,
    << <<KAB, Lit(<< <<KC, S("1")>> >>)>> >>,
    << <<KC, S("1")>>, <<KA, Lit(<<>>)>> >>,
    << <<KA, S("1")>>, <<KAB, S("2")>> >>,
    << <<KA, Lit(<< <<B, Undef>> >>)>>, <<KC, Null>> >> }

\* obj and whether putValue threw, after putValue(obj, key, value) when none
\* threw before
putInto(st, key, value, remove_undefined) ==
  IF st.threw THEN st
  ELSE LET r == putValue(st.obj, key, value, remove_undefined)
       IN  IF r.t = "error" THEN [threw |-> TRUE, obj |-> putThrown(st.obj, key)]
           ELSE [threw |-> FALSE, obj |-> r]

\* _put leaving the key out of pre_path when it goes into an object value
RECURSIVE putNoPrefix(_, _, _, _)
putNoPrefix(st, pre_path, es, remove_undefined) ==
  IF es = <<>> \/ st.threw THEN st
  ELSE LET key == es[1][1]
           value == es[1][2]
           st1 == IF isObject(value)
                  THEN putNoPrefix(st, pre_path, value.es, remove_undefined)
                  ELSE putInto(st, pre_path \o key, value, remove_undefined)
       IN  putNoPrefix(st1, pre_path, Tail(es), remove_undefined)

\* _put(pre_path, o_value) in putObj: for (let key in o_value), an object
\* value goes to _put(pre_path + key + '.', value), any other to putValue
RECURSIVE put(_, _, _, _)
put(st, pre_path, es, remove_undefined) ==
  IF es = <<>> \/ st.threw THEN st
  ELSE LET key == es[1][1]
           value == es[1][2]
           st1 == IF isObject(value)
                  THEN put(st, pre_path \o key \o <<".">>, value.es, remove_undefined)
                  ELSE putInto(st, pre_path \o key, value, remove_undefined)
       IN  put(st1, pre_path, Tail(es), remove_undefined)

\* obj after putObj(obj, obj_value, {remove_undefined}), and whether it threw
putObj(obj, obj_value, remove_undefined) ==
  put([threw |-> FALSE, obj |-> obj], <<>>, obj_value, remove_undefined)

\* utils.putObj(obj, obj_value, {remove_undefined})
callPutObj(o) ==
  \E obj_value \in PathMaps, remove_undefined \in BOOLEAN :
    /\ pc[o] = "idle"
    /\ calls < MaxCalls
    /\ calls' = calls + 1
    /\ call' = [call EXCEPT ![o] = [NoCall EXCEPT !.kind = "putObj",
                                                  !.obj = obj_value,
                                                  !.remove_undefined = remove_undefined]]
    /\ sv' = [sv EXCEPT ![o].base = doc[o]]
    /\ LET r == putObj(doc[o], obj_value, remove_undefined)
       IN  /\ doc' = [doc EXCEPT ![o] = r.obj]
           /\ pc' = [pc EXCEPT ![o] = IF r.threw THEN "threw" ELSE "returned"]
    /\ UNCHANGED <<storage, remote, buffer, ret, flushBuf, gwLog, seen, pre, clean,
                   lastRead, overlapped, failed, hydFetch, created, failures>>
    /\ UNCHANGED aside

\* pushValue putting [value] in place of the array it found
pushValueReplaces(obj, key, value) ==
  LET exists == pickValue(obj, key)
      st == [threw |-> FALSE, obj |-> obj]
  IN  IF exists.t = "error" THEN [threw |-> TRUE, obj |-> obj]
      ELSE IF isNone(exists) \/ isArray(exists)
      THEN putInto(st, key, Arr(<<value>>), TRUE)
      ELSE [threw |-> TRUE, obj |-> obj]

\* obj after pushValue(obj, key, value), and whether it threw: putValue of
\* [value] when pickValue gives null or undefined; exists.push(value) on the
\* array obj holds under key; else it throws
pushValue(obj, key, value) ==
  LET exists == pickValue(obj, key)
      st == [threw |-> FALSE, obj |-> obj]
  IN  IF exists.t = "error" THEN [threw |-> TRUE, obj |-> obj]
      ELSE IF isNone(exists) THEN putInto(st, key, Arr(<<value>>), TRUE)
      ELSE IF isArray(exists)
      THEN putInto(st, key, Arr(Append(exists.e, value)), TRUE)
      ELSE [threw |-> TRUE, obj |-> obj]

\* utils.pushValue(obj, key, value)
callPushValue(o) ==
  \E key \in PathKeys, value \in PathVals :
    /\ pc[o] = "idle"
    /\ calls < MaxCalls
    /\ calls' = calls + 1
    /\ call' = [call EXCEPT ![o] = [NoCall EXCEPT !.kind = "pushValue",
                                                  !.key = key, !.value = value]]
    /\ sv' = [sv EXCEPT ![o].base = doc[o]]
    /\ LET r == pushValue(doc[o], key, value)
       IN  /\ doc' = [doc EXCEPT ![o] = r.obj]
           /\ pc' = [pc EXCEPT ![o] = IF r.threw THEN "threw" ELSE "returned"]
    /\ UNCHANGED <<storage, remote, buffer, ret, flushBuf, gwLog, seen, pre, clean,
                   lastRead, overlapped, failed, hydFetch, created, failures>>
    /\ UNCHANGED aside

\* the keys arguments of pickObj
PathKeyLists == {<<>>, <<KA>>, <<KAB, KABC>>, <<KC, KA, KC>>, <<KABC, KAB>>}

\* pickObj as the older utils.js of the miniprogram directory has it: only
\* the own properties of obj named by keys, read as obj[key]
RECURSIVE pickObjOwn(_, _)
pickObjOwn(obj, keys) ==
  IF isArray(obj) THEN Arr([i \in 1..Len(obj.e) |-> pickObjOwn(obj.e[i], keys)])
  ELSE IF keys = <<>> THEN EmptyObj
  ELSE IF isNone(obj) THEN Err
  ELSE LET new_obj == pickObjOwn(obj, SubSeq(keys, 1, Len(keys) - 1))
           key == keys[Len(keys)]
       IN  IF isObject(obj) /\ key \in DOMAIN obj.f
           THEN SetProp(new_obj, key, obj.f[key]) ELSE new_obj

\* pickObj(obj, keys): for an array the array of pickObj of its elements,
\* else new_obj[key] = pickValue(obj, key) for each key; Err when pickValue
\* throws
RECURSIVE pickObj(_, _)
pickObj(obj, keys) ==
  IF isArray(obj) THEN Arr([i \in 1..Len(obj.e) |-> pickObj(obj.e[i], keys)])
  ELSE IF keys = <<>> THEN EmptyObj
  ELSE LET new_obj == pickObj(obj, SubSeq(keys, 1, Len(keys) - 1))
           v == pickValue(obj, keys[Len(keys)])
       IN  IF new_obj.t = "error" \/ v.t = "error" THEN Err
           ELSE SetProp(new_obj, keys[Len(keys)], v)

\* utils.pickObj(obj, keys); the keys are kept in call[o].obj
callPickObj(o) ==
  \E keys \in PathKeyLists :
    /\ pc[o] = "idle"
    /\ calls < MaxCalls
    /\ calls' = calls + 1
    /\ call' = [call EXCEPT ![o] = [NoCall EXCEPT !.kind = "pickObj", !.obj = keys]]
    /\ sv' = [sv EXCEPT ![o].base = doc[o]]
    /\ LET r == pickObj(doc[o], keys)
       IN  IF r.t = "error"
           THEN /\ pc' = [pc EXCEPT ![o] = "threw"]
                /\ UNCHANGED ret
           ELSE /\ pc' = [pc EXCEPT ![o] = "picked"]
                /\ ret' = [ret EXCEPT ![o] = r]
    /\ UNCHANGED <<storage, remote, buffer, doc, flushBuf, gwLog, seen, pre, clean,
                   lastRead, overlapped, failed, hydFetch, created, failures>>
    /\ UNCHANGED aside

\* the values compared by isEqual: the roots and values of the path
\* accessors, {a: undefined}, {c: '1'}, {a: '1', c: '1'}, [], ['1'], [null],
\* [undefined], ['1', '1'], [{}]
EqVals ==
  PathObjs \cup PathVals \cup
  {SetProp(EmptyObj, KA, Undef),
   SetProp(EmptyObj, KC, S("1")),
   SetProp(SetProp(EmptyObj, KA, S("1")), KC, S("1")),
   Arr(<<>>), Arr(<<S("1")>>), Arr(<<Null>>), Arr(<<Undef>>),
   Arr(<<S("1"), S("1")>>), Arr(<<EmptyObj>>)}

\* utils.isEqual(a, b) for two values that are not the same object: a is kept
\* in doc, b in call.value, the answer in ret
isEqualAlone(o) ==
  \E a \in EqVals, b \in EqVals :
    /\ pc[o] = "idle"
    /\ calls < MaxCalls
    /\ calls' = calls + 1
    /\ call' = [call EXCEPT ![o] = [NoCall EXCEPT !.kind = "isEqual", !.value = b]]
    /\ doc' = [doc EXCEPT ![o] = a]
    /\ ret' = [ret EXCEPT ![o] = IF isEqual(a, b) THEN S("true") ELSE S("false")]
    /\ pc' = [pc EXCEPT ![o] = "compared"]
    /\ UNCHANGED <<storage, remote, buffer, flushBuf, gwLog, sv, seen, pre,
                   clean, lastRead, overlapped, failed, hydFetch, created, failures>>
    /\ UNCHANGED aside

NextPath ==
  \/ \E o \in PathOps : isEqualAlone(o)
  \/ \E o \in PathOps : callPutValue(o)
  \/ \E o \in PathOps : callPickObj(o)
  \/ \E o \in PathOps : callPushValue(o)
  \/ \E o \in PathOps : callPutObj(o)
  \/ \E o \in PathOps : repeatPutValue(o)
  \/ \E o \in PathOps : callPickValue(o)
  \/ \E o \in PathOps : pickValueAlone(o)

SpecPath == InitPath /\ [][NextPath]_vars

(* ----------------- addPromiseToQueue and cloudReady ------------------- *)

\* number of functions given to addPromiseToQueue in one run
MaxQueued == 3

\* number of cloudReady calls in one run
MaxWaiters == 3

\* what a promise_func does when it is called: return a promise that
\* resolves, return one that rejects, or throw
Outcomes == {"resolves", "rejects", "throws"}

\* _promise_queue without the catch: it settles as the then before it
caughtNot(settled) == settled

\* how .catch(e => {}) settles when the promise before it has settled
caught(settled) == "resolved"

\* the value of _promise_queue that the i-th function was chained to:
\* Promise.resolve() for the first
chainedTo(i) == IF i = 1 THEN "resolved" ELSE promise_queue[i - 1].link

\* addPromiseToQueue(promise_func): at is where the function is, link is the
\* state of _promise_queue.then(() => promise_func()).catch(e => {})
addPromiseToQueue ==
  \E does \in Outcomes :
    /\ Len(promise_queue) < MaxQueued
    /\ promise_queue' = Append(promise_queue,
                               [does |-> does, at |-> "waiting", link |-> "pending"])
    /\ UNCHANGED <<main, running, cloud_ready>>

\* the then callback runs once the promise it was chained to has resolved:
\* promise_func() is called and returns a promise or throws
startQueued ==
  \E i \in 1..Len(promise_queue) :
    /\ promise_queue[i].at = "waiting"
    /\ chainedTo(i) = "resolved"
    /\ promise_queue' =
         IF promise_queue[i].does = "throws"
         THEN [promise_queue EXCEPT ![i].at = "threw", ![i].link = caught("rejected")]
         ELSE [promise_queue EXCEPT ![i].at = "running"]
    /\ UNCHANGED <<main, running, cloud_ready>>

\* the promise promise_func returned settles
settleQueued ==
  \E i \in 1..Len(promise_queue) :
    /\ promise_queue[i].at = "running"
    /\ LET settled == IF promise_queue[i].does = "resolves" THEN "resolved"
                      ELSE "rejected"
       IN  promise_queue' = [promise_queue EXCEPT ![i].at = settled,
                                                  ![i].link = caught(settled)]
    /\ UNCHANGED <<main, running, cloud_ready>>

\* _cloud_ready_promises keeping only the resolve just pushed
pushedAnew(r, n) == [r EXCEPT !.has = TRUE, !.promises = <<n>>]

\* running._cloud_ready_promises ??= [] and .push(resolve), for the resolve
\* of the n-th promise
pushed(r, n) ==
  [r EXCEPT !.has = TRUE,
            !.promises = Append(IF r.has THEN r.promises ELSE <<>>, n)]

\* cloudReady(): resolve at once when is_cloud_ready, else keep resolve in
\* the list and define the setter _set_cloud_ready; resolved counts the
\* calls of resolve, waited tells that the promise was kept in the list
cloudReady ==
  /\ Len(cloud_ready) < MaxWaiters
  /\ IF running.is_cloud_ready
     THEN /\ cloud_ready' = Append(cloud_ready, [resolved |-> 1, waited |-> FALSE])
          /\ UNCHANGED running
     ELSE /\ cloud_ready' = Append(cloud_ready, [resolved |-> 0, waited |-> TRUE])
          /\ running' = [pushed(running, Len(cloud_ready) + 1) EXCEPT !.setter = TRUE]
  /\ UNCHANGED <<main, promise_queue>>

\* the app, when cloud.init() has resolved:
\* running._set_cloud_ready = running.is_cloud_ready = true. The setter, when
\* there is one, deletes itself, calls every resolve of the list and deletes
\* the list
setCloudReady ==
  /\ ~running.is_cloud_ready
  /\ IF running.setter
     THEN /\ cloud_ready' =
               [n \in 1..Len(cloud_ready) |->
                  IF \E k \in 1..Len(running.promises) : running.promises[k] = n
                  THEN [cloud_ready[n] EXCEPT !.resolved = @ + 1]
                  ELSE cloud_ready[n]]
          /\ running' = [is_cloud_ready |-> TRUE, has |-> FALSE,
                         promises |-> <<>>, setter |-> FALSE]
     ELSE /\ running' = [running EXCEPT !.is_cloud_ready = TRUE]
          /\ UNCHANGED cloud_ready
  /\ UNCHANGED <<main, promise_queue>>

NextApp ==
  \/ addPromiseToQueue
  \/ startQueued
  \/ settleQueued
  \/ cloudReady
  \/ setCloudReady

SpecApp == Init /\ [][NextApp]_vars

TypeOK ==
  /\ \A o \in Ops : pc[o] \in InFlightPcs \cup {"idle", "resolved", "rejected", "hung"}
  /\ calls \in 0..MaxCalls

(* ------------------------------- claims ------------------------------- *)

\* the call in slot o has issued the database call f
Issued(o, f) == \E i \in 1..Len(gwLog[o]) : gwLog[o][i] = f

\* a write on collection c has been called and has not settled yet
WriteInFlight(c) ==
  \E o \in Ops : InFlight(o) /\ call[o].c = c /\ call[o].kind \in WriteKinds

\* C1, as stated: a setUserConfig(c, key, v) without skip_equal called right
\* after getUserConfig(c, key) returned v issues no database call and resolves
\* false, whatever Storage holds under key (nothing included)
C1_Original ==
  \A o \in Ops :
    (pre[o].read.valid /\ clean[o]) =>
      /\ gwLog[o] = <<>>
      /\ pc[o] \in {"getStorage", "resolved"}
      /\ (pc[o] = "resolved" => ret[o] = S("false"))

\* C1, amended: when getUserConfig(c, key) returned a value v that Storage
\* holds under key (not its default), a setUserConfig(c, key, v) without
\* skip_equal called right after it issues no database call and resolves false
C1_WriteSuppression ==
  \A o \in Ops :
    (pre[o].read.valid /\ ~isNone(pre[o].read.stored) /\ clean[o]) =>
      /\ gwLog[o] = <<>>
      /\ pc[o] \in {"getStorage", "resolved"}
      /\ (pc[o] = "resolved" => ret[o] = S("false"))

C1_Witness ==
  \E o \in Ops :
    /\ pre[o].read.valid /\ ~isNone(pre[o].read.stored) /\ clean[o]
    /\ pc[o] = "resolved" /\ ret[o] = S("false")

\* C2, as stated: a setUserConfig without skip_equal that succeeded resolved
\* false exactly when the value was equal and no database write was issued,
\* and true exactly when it stored the data locally and wrote the database,
\* whether Storage had data or the call loaded it
C2_Original ==
  \A o \in Ops :
    (/\ call[o].kind = "setUserConfig" /\ ~call[o].skip_equal
     /\ pc[o] = "resolved" /\ clean[o]) =>
      /\ (ret[o] = S("true")) = (sv[o].local = "ok" /\ Issued(o, "updateMyMatch"))
      /\ (ret[o] = S("false")) =
           (/\ isEqual(pickValue(Stored(call[o].c), call[o].key), call[o].value)
            /\ ~Issued(o, "updateMyMatch"))

C4_Original ==
  \A o \in Ops :
    /\ Issued(o, "updateMyMatch") => sv[o].before = 0
    /\ sv[o].local = "fail" => gwLog[o] = <<>>

\* C4, amended: updateMyMatch, the first database call of the save, is issued
\* only after setStorage of the new data completed; the one database call a
\* write may issue before that is the getMyOne that loads the record when
\* Storage had no data; when setStorage fails, no updateMyMatch, no getMyOne
\* for existence and no addDoc are issued
C4_LocalBeforeRemote ==
  \A o \in Ops :
    /\ Issued(o, "updateMyMatch") =>
         /\ sv[o].local = "ok"
         /\ sv[o].before \in {0, 1}
         /\ gwLog[o][sv[o].before + 1] = "updateMyMatch"
         /\ sv[o].before = 1 => gwLog[o][1] = "getMyOne" /\ seen[o] # "none"
    /\ (pc[o] = "update" /\ clean[o]) => Stored(call[o].c) = doc[o]
    /\ sv[o].local # "ok" =>
         /\ ~Issued(o, "updateMyMatch") /\ ~Issued(o, "addDoc")
         /\ gwLog[o] \in {<<>>, <<"getMyOne">>}
    /\ sv[o].local = "fail" => pc[o] \notin {"update", "existsCheck", "addDoc"}

C4_Witness ==
  \E o \in Ops :
    /\ call[o].kind \in WriteKinds
    /\ pc[o] = "update" /\ sv[o].local = "ok" /\ sv[o].before = 0
    /\ Stored(call[o].c) = doc[o]

\* C5: when updateMyMatch, the getMyOne after it or addDoc fails in a
\* setUserConfig(c, key, value) that no other call interfered with, the promise
\* is rejected, Storage holds value under key so that a getUserConfig(c, key)
\* returns it, and the database holds what it held when the call was issued, so
\* that a session without data in Storage loads the older doc
C5_RemoteFailure ==
  \A o \in Ops :
    (call[o].kind = "setUserConfig" /\ sv[o].gw = "write" /\ clean[o]) =>
      /\ pc[o] = "rejected"
      /\ sv[o].local = "ok"
      /\ pickValue(Stored(call[o].c), call[o].key) = call[o].value
      /\ \A dv \in DefaultVals :
           readResult([NoCall EXCEPT !.kind = "getUserConfig", !.c = call[o].c,
                                     !.key = call[o].key, !.default_value = dv],
                      Stored(call[o].c)) = Coalesce(call[o].value, dv)
      /\ loadedDoc(call[o].c, dbGetOne(remote[call[o].c])) = pre[o].fresh

C5_Witness ==
  \E o \in Ops :
    /\ call[o].kind = "setUserConfig" /\ sv[o].gw = "write" /\ clean[o]
    /\ pc[o] = "rejected"
    /\ call[o].value = S("1")
    /\ pickValue(Stored(call[o].c), call[o].key) = S("1")
    /\ pickValue(pre[o].fresh, call[o].key) # S("1")
    /\ loadedDoc(call[o].c, dbGetOne(remote[call[o].c])) = pre[o].fresh

\* C6, as stated: a call one of whose database calls failed, while it loaded
\* the record or while it wrote, has a rejected promise
C6_Original ==
  \A o \in Ops : sv[o].gw # "none" => pc[o] = "rejected"

\* C7: the save calls updateMyMatch first; the getMyOne for existence is issued
\* only after updateMyMatch answered 0; addDoc is issued exactly when
\* updateMyMatch answered 0 and getMyOne found no record; when it found one the
\* write resolves with no further database call; and while no two calls on c
\* have run at the same time, at most one record has been added to c and the
\* user has at most one record in c
C7_Upsert ==
  /\ \A o \in Ops :
       /\ sv[o].exists # "none" => sv[o].updated = 0
       /\ Issued(o, "addDoc") = (sv[o].updated = 0 /\ sv[o].exists = "no")
       /\ (pc[o] = "existsCheck") = (sv[o].updated = 0 /\ sv[o].exists = "none"
                                     /\ sv[o].gw = "none")
       /\ pc[o] = "addDoc" => sv[o].exists = "no"
       /\ sv[o].updated # -1 => gwLog[o][sv[o].before + 1] = "updateMyMatch"
       /\ (sv[o].updated = 0 /\ sv[o].exists = "yes") =>
            /\ pc[o] = "resolved"
            /\ Len(gwLog[o]) = sv[o].before + 2
            /\ gwLog[o][Len(gwLog[o])] = "getMyOne"
       /\ sv[o].updated > 0 =>
            /\ pc[o] = "resolved"
            /\ Len(gwLog[o]) = sv[o].before + 1
  /\ \A c \in Namespaces :
       ~overlapped[c] => created[c] <= 1 /\ Len(remote[c]) <= 1

C7_Witness ==
  \E o \in Ops :
    /\ sv[o].updated = 0 /\ sv[o].exists = "no" /\ pc[o] = "resolved"
    /\ Issued(o, "addDoc")
    /\ created[call[o].c] = 1 /\ ~overlapped[call[o].c]

\* C8, as stated: whatever the schedule of the calls, the record of c is
\* fetched for loading at most once between two removals of its Storage data
C8_Original ==
  \A c \in Namespaces : hydFetch[c] <= 1

\* C8, amended: while no two calls on c have run at the same time and no call
\* on c has failed or stayed pending, the record of c is fetched for loading
\* at most once between two removals of its Storage data
C8_HydrateOnce ==
  \A c \in Namespaces : (~overlapped[c] /\ ~failed[c]) => hydFetch[c] <= 1

C8_Witness ==
  \E c \in Namespaces :
    /\ ~overlapped[c] /\ ~failed[c] /\ hydFetch[c] = 1
    /\ \E o \in Ops : call[o].c = c /\ pc[o] = "resolved" /\ seen[o] = "found"

\* C9: a getUserConfig or getUserConfigObj on c called while Storage has data
\* for c, with no other call on c and no removal since, issues no database call
\* and resolves with the values picked from the data, a key the data lack
\* giving its default
C9_CachedRead ==
  \A o \in Ops :
    (call[o].kind \in ReadKinds /\ pre[o].snap /\ clean[o]) =>
      /\ gwLog[o] = <<>>
      /\ pc[o] \in {"getStorage", "resolved"}
      /\ pc[o] = "resolved" =>
           /\ seen[o] = "found"
           /\ ret[o] = readResult(call[o], Stored(call[o].c))

C9_Witness ==
  \E o \in Ops :
    /\ call[o].kind = "getUserConfig" /\ pre[o].snap /\ clean[o]
    /\ pc[o] = "resolved" /\ gwLog[o] = <<>>
    /\ pickValue(Stored(call[o].c), call[o].key) = Undef
    /\ ret[o] = S("D")

Root(key) == split(key, ".")[1]

\* C12, as stated: of two setUserConfig calls on one collection with different
\* keys, issued without waiting, each sends updateMyMatch a doc with its own
\* key only, and once both have resolved Storage and the record hold both
\* values
C12_Original ==
  /\ \A o \in Ops :
       pc[o] = "update" => DOMAIN doc[o].f \subseteq {Root(call[o].key)}
  /\ (pc[1] = "resolved" /\ pc[2] = "resolved") =>
       \A o \in Ops :
         /\ pickValue(Stored(call[o].c), call[o].key) = call[o].value
         /\ pickValue(dbGetOne(remote[call[o].c]), call[o].key) = call[o].value

\* C12, amended: each setUserConfig sends updateMyMatch the whole data it
\* started from with its value put under its key; two calls on one collection
\* with different keys leave both values in Storage and in the record when
\* the second was issued after the first had resolved
C12_PairOfWrites ==
  /\ \A o \in Ops :
       pc[o] = "update" =>
         /\ pickValue(doc[o], call[o].key) = call[o].value
         /\ \A k \in DOMAIN sv[o].base.f \ {ID, OPENID} : k \in DOMAIN doc[o].f
  /\ (/\ pc[1] = "resolved" /\ pc[2] = "resolved"
      /\ ~overlapped[call[1].c]) =>
       \A o \in Ops :
         /\ pickValue(Stored(call[o].c), call[o].key) = call[o].value
         /\ pickValue(dbGetOne(remote[call[o].c]), call[o].key) = call[o].value

C12_Witness ==
  /\ pc[1] = "resolved" /\ pc[2] = "resolved"
  /\ ~overlapped[call[1].c]
  /\ ret[1] = S("true") /\ ret[2] = S("true")
  /\ pre[1].snap /\ pre[1].rec
  /\ \A o \in Ops :
       /\ pickValue(Stored(call[o].c), call[o].key) = call[o].value
       /\ pickValue(dbGetOne(remote[call[o].c]), call[o].key) = call[o].value

\* the segments of k1 are the first segments of k2
Prefix(k1, k2) ==
  LET s1 == split(k1, ".")
      s2 == split(k2, ".")
  IN  Len(s1) <= Len(s2) /\ SubSeq(s2, 1, Len(s1)) = s1

\* no key of the entries is a prefix of another
Apart(entries) ==
  \A i, j \in 1..Len(entries) : i # j => ~Prefix(entries[i][1], entries[j][1])

\* every entry is equal to what data holds under its key
AllEqual(entries, data) ==
  \A i \in 1..Len(entries) : isEqual(pickValue(data, entries[i][1]), entries[i][2])

\* the number of times the call in slot o has issued f
Times(o, f) == Cardinality({i \in 1..Len(gwLog[o]) : gwLog[o][i] = f})

C14_ReservedFields ==
  /\ \A c \in Namespaces :
       Stored(c) # Absent =>
         /\ isObject(Stored(c))
         /\ ID \notin DOMAIN Stored(c).f /\ OPENID \notin DOMAIN Stored(c).f
  /\ \A o \in Ops :
       pc[o] \in {"update", "existsCheck", "addDoc"} =>
         /\ isObject(doc[o])
         /\ ID \notin DOMAIN doc[o].f /\ OPENID \notin DOMAIN doc[o].f

C14_Witness ==
  \E o \in Ops :
    /\ call[o].kind \in WriteKinds /\ seen[o] = "absent" /\ pc[o] = "update"
    /\ remote[call[o].c] # <<>>
    /\ ID \in DOMAIN remote[call[o].c][1].f
    /\ ID \in DOMAIN sv[o].base.f \/ call[o].kind = "setUserConfigObj"
    /\ Stored(call[o].c) = doc[o]

\* a flushUserConfigBuffer call
Flush(o) == call[o].kind = "flushUserConfigBuffer"

\* C15: the buffer of a collection changes only in a setUserConfigBuffer or
\* clearUserConfigBuffer call, or in the step in which a flushUserConfigBuffer
\* of that collection resolves: a flush that fails or hangs, in Storage or in
\* the database, leaves every staged entry, and no flush touches the entries
\* of another collection
C15_ClearedOnSuccess ==
  [][\A c \in Namespaces :
       buffer'[c] # buffer[c] =>
         \/ pc' = pc
         \/ \E o \in Ops : /\ Flush(o) /\ call[o].c = c
                           /\ pc[o] # "resolved" /\ pc'[o] = "resolved"]_vars

C15_Witness ==
  \E o \in Ops :
    /\ Flush(o) /\ pc[o] \in {"rejected", "hung"}
    /\ sv[o].local = "ok" /\ sv[o].gw # "none"
    /\ pre[o].staged # <<>> /\ buffer[call[o].c] = pre[o].staged
    /\ \E c \in Namespaces : c # call[o].c /\ buffer[c] # <<>>

\* the data of collection c hold value under key for every entry
HoldsAll(data, entries) ==
  \A i \in 1..Len(entries) : pickValue(data, entries[i][1]) = entries[i][2]

\* a flush that resolved after putting the entries that were in the buffer when
\* it was called, with no other call on its collection since
FlushedAlone(o) ==
  /\ Flush(o) /\ pc[o] = "resolved" /\ clean[o]
  /\ pre[o].staged # <<>> /\ sv[o].put = pre[o].staged

\* C16, as stated: after a flush of a buffer with entries resolved, Storage and
\* the record of the user hold the value of every staged entry under its key,
\* and the flush issued updateMyMatch once
C16_Original ==
  \A o \in Ops :
    FlushedAlone(o) =>
      /\ HoldsAll(Stored(call[o].c), pre[o].staged)
      /\ HoldsAll(dbGetOne(remote[call[o].c]), pre[o].staged)
      /\ Times(o, "updateMyMatch") = 1

\* C16, amended: after a flush of a buffer with entries resolved, the flush
\* issued updateMyMatch once, however many entries there were, and when no
\* staged key is a prefix of another, Storage and the record of the user hold
\* the value of every staged entry under its key
C16_FlushedEntries ==
  \A o \in Ops :
    FlushedAlone(o) =>
      /\ Times(o, "updateMyMatch") = 1
      /\ Times(o, "addDoc") <= 1
      /\ Apart(pre[o].staged) =>
           /\ HoldsAll(Stored(call[o].c), pre[o].staged)
           /\ HoldsAll(dbGetOne(remote[call[o].c]), pre[o].staged)

C16_Witness ==
  \E o \in Ops :
    /\ FlushedAlone(o)
    /\ Len(pre[o].staged) = 2 /\ Apart(pre[o].staged)
    /\ Times(o, "updateMyMatch") = 1
    /\ HoldsAll(Stored(call[o].c), pre[o].staged)
    /\ HoldsAll(dbGetOne(remote[call[o].c]), pre[o].staged)

C18_EmptyFlush ==
  [][\A o \in Ops :
       (/\ calls' = calls + 1 /\ Free(o)
        /\ (pc'[o] # pc[o] \/ call'[o] # call[o])
        /\ call'[o].kind = "flushUserConfigBuffer"
        /\ buffer[call'[o].c] = <<>>) =>
         /\ pc'[o] = "resolved" /\ ret'[o] = Undef
         /\ seen'[o] = "none" /\ gwLog'[o] = <<>> /\ sv'[o] = NoSave
         /\ storage' = storage /\ remote' = remote /\ buffer' = buffer]_vars

C18_Witness ==
  \E o \in Ops :
    /\ Flush(o) /\ pre[o].staged = <<>> /\ buffer[call[o].c] = <<>>
    /\ pc[o] = "resolved" /\ ret[o] = Undef
    /\ seen[o] = "none" /\ gwLog[o] = <<>> /\ sv[o] = NoSave
    /\ Stored(call[o].c) # Absent
    /\ \E c \in Namespaces : buffer[c] # <<>>

\* the buffer after a step is the buffer before it with value under key in
\* the entries of collection c, once, and every other entry as it was
StageShape ==
  \E c \in Namespaces, key \in Keys, value \in WriteVals :
    LET b == buffer[c]
        b2 == buffer'[c]
        kept == {b[i] : i \in {j \in 1..Len(b) : b[j][1] # key}}
    IN  /\ \A n \in Namespaces \ {c} : buffer'[n] = buffer[n]
        /\ {b2[i] : i \in 1..Len(b2)} = kept \cup {<<key, value>>}
        /\ Len(b2) = Cardinality(kept) + 1

\* the buffer after a step is the buffer before it without the entries of one
\* collection, or without any entry
ClearShape ==
  \E cs \in {{c} : c \in Namespaces} \cup {Namespaces} :
    \A n \in Namespaces : buffer'[n] = IF n \in cs THEN <<>> ELSE buffer[n]

\* C19: a step that changes the buffer and is no step of a flush, that is, a
\* setUserConfigBuffer or clearUserConfigBuffer call, calls neither Storage
\* nor the database and changes neither Storage nor a record;
\* setUserConfigBuffer(c, key, value) leaves one entry <<key, value>> under the
\* undivided key in the buffer of c and every other entry as it was, and
\* clearUserConfigBuffer removes the entries of c, or all entries
C19_BufferOnly ==
  [][(buffer' # buffer /\ pc' = pc) =>
       /\ storage' = storage /\ remote' = remote
       /\ gwLog' = gwLog /\ seen' = seen /\ sv' = sv /\ doc' = doc
       /\ StageShape \/ ClearShape]_vars

C19_Witness ==
  /\ calls = 1
  /\ \A o \in Ops : pc[o] = "idle" /\ gwLog[o] = <<>>
  /\ \E c \in Namespaces : buffer[c] = << <<KA, Null>>, <<KAB, Null>> >>

\* a pushUserConfig call with allow_repeat false and no limit has resolved, and
\* the array it read had an element that is value or has the _id of value
PushedRepeat(o) ==
  /\ call[o].kind = "pushUserConfig" /\ pc[o] = "resolved"
  /\ ~call[o].push.allow_repeat /\ call[o].push.limit = 0
  /\ \E i \in 1..Len(call[o].push.read.e) :
       sameElement(call[o].push.read.e[i], call[o].push.value)

\* the array arr without the elements that are value or have its _id, and
\* with value at the end, or at the front for prepend
Moved(arr, p) ==
  LET rest == SelectSeq(arr.e, LAMBDA x : ~sameElement(x, p.value))
  IN  Arr(IF p.prepend THEN <<p.value>> \o rest ELSE Append(rest, p.value))

PushedPastLimit(o) ==
  /\ call[o].kind = "pushUserConfig" /\ pc[o] = "resolved"
  /\ isArray(call[o].push.read)
  /\ \/ call[o].push.allow_repeat
     \/ \A i \in 1..Len(call[o].push.read.e) :
          ~sameElement(call[o].push.read.e[i], call[o].push.value)
  /\ call[o].push.limit >= 1
  /\ Len(call[o].push.read.e) + 1 > call[o].push.limit

\* the limit elements of old with value that are nearest the end at which
\* value was put
NearestEnd(old, p) ==
  LET all == IF p.prepend THEN <<p.value>> \o old.e ELSE old.e \o <<p.value>>
      n == Len(all)
  IN  Arr([i \in 1..p.limit |-> IF p.prepend THEN all[i] ELSE all[n - p.limit + i]])

\* C21: when the array with the value put is longer than limit, pushUserConfig
\* resolves with its limit elements nearest the end at which the value was
\* put, in their order (the last of old ++ [value], or for prepend the first
\* of [value] ++ old), and Storage holds that array under the key
C21_PushLimit ==
  \A o \in Ops :
    PushedPastLimit(o) =>
      /\ ret[o] = NearestEnd(call[o].push.read, call[o].push)
      /\ pickValue(Stored(call[o].c), call[o].key) = ret[o]

C21_Witness ==
  \E o \in Ops :
    /\ PushedPastLimit(o)
    /\ ~call[o].push.prepend /\ call[o].push.limit = 3
    /\ Len(call[o].push.read.e) = 3
    /\ ret[o] = Arr(Tail(call[o].push.read.e) \o <<call[o].push.value>>)
    /\ pickValue(Stored(call[o].c), call[o].key) = ret[o]
    /\ pickValue(dbGetOne(remote[call[o].c]), call[o].key) = ret[o]

\* a pullUserConfig call has settled on the array it read
Pulled(o) ==
  /\ call[o].kind = "pullUserConfig" /\ pc[o] = "resolved"
  /\ isArray(call[o].push.read)

\* C22, as stated: pullUserConfig(c, key, {count: 1}) removes the last element
\* of the stored array and resolves with it, or with undefined when the array
\* is empty: on [x, y] it resolves with y and Storage holds [x]
C22_Original ==
  \A o \in Ops :
    (Pulled(o) /\ call[o].push.value = PopOne) =>
      LET e == call[o].push.read.e
      IN  IF e = <<>> THEN ret[o] = Undef
          ELSE /\ ret[o] = e[Len(e)]
               /\ pickValue(Stored(call[o].c), call[o].key)
                    = Arr(SubSeq(e, 1, Len(e) - 1))

\* the indexes of the elements of the array read that match the value
Matches(o) ==
  {i \in 1..Len(call[o].push.read.e) :
     sameElement(call[o].push.read.e[i], call[o].push.value)}

\* the sequence e without its element at index k
Without(e, k) == SubSeq(e, 1, k - 1) \o SubSeq(e, k + 1, Len(e))

\* C23, as stated, for the default options (limit 1, prepend false):
\* pullUserConfig with a value to match removes min(1, number of matching
\* elements) elements, the match nearest the end of the array, leaves the
\* other elements in order, and resolves with the number removed
C23_Original ==
  \A o \in Ops :
    (Pulled(o) /\ call[o].push.value \in {S("x"), DocB}) =>
      IF Matches(o) = {} THEN ret[o] = ZERO
      ELSE LET last == CHOOSE i \in Matches(o) : \A j \in Matches(o) : j <= i
           IN  /\ ret[o] = ONE
               /\ pickValue(Stored(call[o].c), call[o].key)
                    = Arr(Without(call[o].push.read.e, last))

\* the user's record is as it was when the call in slot o was made
RecordAsBefore(o) ==
  /\ (remote[call[o].c] # <<>>) = pre[o].rec
  /\ loadedDoc(call[o].c, dbGetOne(remote[call[o].c])) = pre[o].fresh

\* the call in slot o has called neither setStorage for a write nor
\* updateMyMatch nor addDoc
WroteNothing(o) ==
  /\ sv[o].local = "none"
  /\ ~Issued(o, "updateMyMatch") /\ ~Issued(o, "addDoc")

\* C24: when no element of the array matches the value, pullUserConfig resolves
\* with 0, writes neither Storage nor the database, and the user's record and
\* the array in Storage are as they were
C24_NoMatchNoWrite ==
  \A o \in Ops :
    (/\ call[o].kind = "pullUserConfig" /\ isArray(call[o].push.read)
     /\ Matches(o) = {}) =>
      /\ pc[o] = "resolved" /\ ret[o] = ZERO
      /\ WroteNothing(o)
      /\ RecordAsBefore(o)
      /\ LET v == pickValue(Stored(call[o].c), call[o].key)
         IN  IF isNone(v) THEN call[o].push.read = Arr(<<>>)
             ELSE v = call[o].push.read

C24_Witness ==
  \E o \in Ops :
    /\ call[o].kind = "pullUserConfig" /\ pc[o] = "resolved"
    /\ call[o].push.value = S("x")
    /\ call[o].push.read = Arr(<<DocA>>)
    /\ ret[o] = ZERO
    /\ gwLog[o] = <<>>
    /\ pickValue(Stored(call[o].c), call[o].key) = Arr(<<DocA>>)
    /\ pickValue(dbGetOne(remote[call[o].c]), call[o].key) = Arr(<<DocA>>)

\* when the call in slot o was made the user's record held a value under the
\* key that is no array
NonArrayAtCall(o) ==
  LET v == pickValue(pre[o].fresh, call[o].key)
  IN  ~isNone(v) /\ ~isArray(v)

\* C25: pushUserConfig and pullUserConfig on a key whose value is no array
\* reject, write neither Storage nor the database, and the value under the
\* key in Storage and the user's record are as they were
C25_NonArrayRejected ==
  \A o \in Ops :
    (call[o].kind \in {"pushUserConfig", "pullUserConfig"} /\ NonArrayAtCall(o)) =>
      /\ pc[o] = "rejected" /\ ret[o] = Err
      /\ WroteNothing(o)
      /\ RecordAsBefore(o)
      /\ pickValue(Stored(call[o].c), call[o].key)
           = pickValue(pre[o].fresh, call[o].key)

C25_Witness ==
  \E o \in Ops :
    /\ call[o].kind = "pushUserConfig" /\ pc[o] = "rejected"
    /\ call[o].push.value = DocB
    /\ call[o].push.read = S("1")
    /\ ~Issued(o, "updateMyMatch") /\ ~Issued(o, "addDoc")
    /\ pickValue(Stored(call[o].c), call[o].key) = S("1")
    /\ pickValue(dbGetOne(remote[call[o].c]), call[o].key) = S("1")

\* C26, as stated: when the setStorage of a setUserConfig, setUserConfigObj or
\* flushUserConfigBuffer call fails, the promise of the call is rejected and
\* the call issues neither updateMyMatch nor addDoc
C26_Original ==
  \A o \in Ops :
    (call[o].kind \in WriteKinds /\ sv[o].local = "fail") =>
      /\ pc[o] = "rejected"
      /\ ~Issued(o, "updateMyMatch") /\ ~Issued(o, "addDoc")

\* the write in slot o called putValue on data in which a key of its goes
\* through a value that is no object, and putValue threw
Traverses(o) ==
  /\ call[o].kind \in WriteKinds
  /\ sv[o].base # Undef
  /\ mustSave(call[o], sv[o].base)
  /\ putEntries(sv[o].base, sv[o].put).t = "error"

\* C27, as stated: a setUserConfig, setUserConfigObj or flushUserConfigBuffer
\* call with a key that goes through an existing value that is no object is
\* rejected, without any database call and without a change of Storage or of
\* the user's record
C27_Original ==
  \A o \in Ops :
    Traverses(o) =>
      /\ pc[o] = "rejected"
      /\ gwLog[o] = <<>>
      /\ sv[o].local = "none"
      /\ RecordAsBefore(o)

\* obj[ks[1]][ks[2]]..., undefined where there is no such property
RECURSIVE At(_, _)
At(obj, ks) == IF ks = <<>> THEN obj ELSE At(Prop(obj, Head(ks)), Tail(ks))

\* the segments of the key of the call in slot o, and the first n of them
Segs(o) == split(call[o].key, ".")
Upto(o, n) == SubSeq(Segs(o), 1, n)

\* C28: when putValue(obj, key, value) with a value other than undefined has
\* returned, pickValue(obj, key) gives value
C28_RoundTrip ==
  \A o \in Ops :
    (/\ call[o].kind = "putValue" /\ pc[o] = "picked"
     /\ call[o].value # Undef) =>
      ret[o] = call[o].value

C28_Witness ==
  \E o \in Ops :
    /\ call[o].kind = "putValue" /\ pc[o] = "picked"
    /\ call[o].key = KABC /\ call[o].value = S("1")
    /\ sv[o].base = SetProp(EmptyObj, KA, Null)
    /\ ret[o] = S("1")
    /\ At(doc[o], << <<"a">>, <<"b">>, <<"c">> >>) = S("1")

\* a putValue(obj, key, undefined) call with remove_undefined true
Deletes(o) ==
  /\ call[o].kind = "putValue"
  /\ call[o].value = Undef /\ call[o].remove_undefined

\* C29: after putValue(obj, key, undefined) with remove_undefined has returned,
\* the object above the last segment of key has no property of that name,
\* the objects the call made on the way are there and hold nothing but the
\* next of them (the last holds nothing), pickValue(obj, key) gives undefined,
\* and the same call once more leaves obj as it is
C29_Deletion ==
  \A o \in Ops :
    Deletes(o) =>
      LET n == Len(Segs(o))
          parent == At(doc[o], Upto(o, n - 1))
      IN  /\ pc[o] \in {"returned", "repeated", "picked"} =>
               /\ isObject(parent)
               /\ Segs(o)[n] \notin DOMAIN parent.f
          /\ pc[o] = "returned" =>
               \A i \in 1..(n - 1) :
                 isNone(At(sv[o].base, Upto(o, i))) =>
                   /\ isObject(At(doc[o], Upto(o, i)))
                   /\ DOMAIN At(doc[o], Upto(o, i)).f
                        = IF i = n - 1 THEN {} ELSE {Segs(o)[i + 1]}
          /\ pc[o] = "picked" => ret[o] = Undef
          /\ pc[o] = "repeated" => doc[o] = sv[o].base

C29_Witness ==
  \E o \in Ops :
    /\ Deletes(o) /\ pc[o] = "returned"
    /\ call[o].key = KABC
    /\ sv[o].base = EmptyObj
    /\ doc[o] = SetProp(EmptyObj, KA, SetProp(EmptyObj, <<"b">>, EmptyObj))

\* obj is null or undefined, or a segment of the key before the last holds a
\* value in obj that is neither missing nor an object
Blocked(obj, ks) ==
  \/ isNone(obj)
  \/ \E i \in 1..(Len(ks) - 1) :
       LET v == At(obj, SubSeq(ks, 1, i)) IN ~isNone(v) /\ ~isObject(v)

\* C30: putValue(obj, key, value) throws exactly when obj is null or undefined
\* or a segment of key before the last holds a string or an array (null there
\* counts as missing); when it throws obj is as it was, and when it returns
\* every segment before the last holds an object
C30_Raises ==
  \A o \in Ops :
    (call[o].kind = "putValue" /\ pc[o] \in {"returned", "repeated", "threw"}) =>
      /\ (pc[o] = "threw") = Blocked(sv[o].base, Segs(o))
      /\ pc[o] = "threw" => doc[o] = sv[o].base
      /\ pc[o] # "threw" =>
           \A i \in 1..(Len(Segs(o)) - 1) : isObject(At(doc[o], Upto(o, i)))

C30_Witness ==
  \E o \in Ops :
    /\ call[o].kind = "putValue" /\ pc[o] = "threw"
    /\ call[o].key = KABC /\ call[o].value = S("1")
    /\ sv[o].base = SetProp(EmptyObj, KA, Arr(<<>>))
    /\ doc[o] = sv[o].base

Reach(o, obj) ==
  LET none == {i \in 1..Len(Segs(o)) : isNone(At(obj, Upto(o, i)))}
  IN  IF none = {} THEN Len(Segs(o))
      ELSE CHOOSE i \in none : \A j \in none : i <= j

RECURSIVE Flatten(_, _)
Flatten(es, above) ==
  IF es = <<>> THEN <<>>
  ELSE (IF isObject(es[1][2]) THEN Flatten(es[1][2].es, above \o es[1][1] \o <<".">>)
        ELSE << <<above \o es[1][1], es[1][2]>> >>)
       \o Flatten(Tail(es), above)

\* obj after putValue for each of the pairs in order, Err when one throws
RECURSIVE PutEach(_, _, _)
PutEach(obj, pairs, remove_undefined) ==
  IF pairs = <<>> \/ obj.t = "error" THEN obj
  ELSE PutEach(putValue(obj, pairs[1][1], pairs[1][2], remove_undefined),
               Tail(pairs), remove_undefined)

\* C32: putObj(obj, obj_value) leaves obj as putValue for each flattened
\* <<path, value>> of obj_value in order leaves it (a later pair wins over an
\* earlier one on the same path), and throws when one of those throws; so
\* obj_value arguments that flatten to the same pairs leave the same obj
C32_PutObjFlattens ==
  \A o \in Ops :
    call[o].kind = "putObj" =>
      LET each == PutEach(sv[o].base, Flatten(call[o].obj, <<>>),
                          call[o].remove_undefined)
      IN  /\ (pc[o] = "threw") = (each.t = "error")
          /\ pc[o] = "returned" => doc[o] = each
          /\ \A m \in PathMaps :
               Flatten(m, <<>>) = Flatten(call[o].obj, <<>>) =>
                 /\ putObj(sv[o].base, m, call[o].remove_undefined).obj = doc[o]
                 /\ putObj(sv[o].base, m, call[o].remove_undefined).threw
                      = (pc[o] = "threw")

C32_Witness ==
  \E o \in Ops :
    /\ call[o].kind = "putObj" /\ pc[o] = "returned"
    /\ call[o].obj = << <<KA, Lit(<< <<B, S("1")>> >>)>>, <<KAB, S("2")>> >>
    /\ sv[o].base = EmptyObj
    /\ doc[o] = SetProp(EmptyObj, KA, SetProp(EmptyObj, B, S("2")))

\* a pushValue call on an object
Pushed(o) == call[o].kind = "pushValue" /\ ~isNone(sv[o].base)

\* what the claim says of a pushValue call on a path that held was: [value]
\* for nothing (null included), the array with value after it for an array,
\* else a throw that leaves obj as it was
PushedAsSaid(o, was) ==
  IF isNone(was)
  THEN pc[o] = "returned" /\ At(doc[o], Segs(o)) = Arr(<<call[o].value>>)
  ELSE IF isArray(was)
  THEN /\ pc[o] = "returned"
       /\ At(doc[o], Segs(o)) = Arr(Append(was.e, call[o].value))
  ELSE pc[o] = "threw" /\ doc[o] = sv[o].base

\* C33, as stated: after pushValue(obj, key, value) the path holds [value]
\* when it held nothing, the array followed by value when it held an array,
\* and for any other value pushValue throws and obj is as it was
C33_Original ==
  \A o \in Ops : Pushed(o) => PushedAsSaid(o, At(sv[o].base, Segs(o)))

\* C33, amended: as stated when no segment before the last holds a string or
\* an array; when one does, the path holds nothing, pushValue throws and obj
\* is as it was
C33_PushValue ==
  \A o \in Ops :
    Pushed(o) =>
      IF Blocked(sv[o].base, Segs(o))
      THEN /\ isNone(At(sv[o].base, Segs(o)))
           /\ pc[o] = "threw" /\ doc[o] = sv[o].base
      ELSE PushedAsSaid(o, At(sv[o].base, Segs(o)))

C33_Witness ==
  \E o \in Ops :
    /\ Pushed(o) /\ pc[o] = "returned"
    /\ call[o].key = KAB /\ call[o].value = Null
    /\ sv[o].base = SetProp(EmptyObj, KA, SetProp(EmptyObj, B, Arr(<<S("1")>>)))
    /\ doc[o] = SetProp(EmptyObj, KA, SetProp(EmptyObj, B, Arr(<<S("1"), Null>>)))

\* the value obj holds at the first of the segments ks that holds null or
\* undefined, or at the path ks when none does
PickAt(obj, ks) ==
  LET none == {i \in 1..Len(ks) : isNone(At(obj, SubSeq(ks, 1, i)))}
  IN  IF none = {} THEN At(obj, ks)
      ELSE At(obj, SubSeq(ks, 1, CHOOSE i \in none : \A j \in none : i <= j))

Settled(i) == promise_queue[i].at \in {"resolved", "rejected", "threw"}

\* C35: a function given to addPromiseToQueue has been called only when every
\* function added before it has settled or thrown (so they run in the order
\* added and never two at a time), and when all of those have, whether they
\* resolved, rejected or threw, nothing keeps the next from being called:
\* the promise it was chained to has resolved
C35_QueueInOrder ==
  \A i \in 1..Len(promise_queue) :
    /\ promise_queue[i].at # "waiting" => \A j \in 1..(i - 1) : Settled(j)
    /\ (promise_queue[i].at = "waiting" /\ \A j \in 1..(i - 1) : Settled(j)) =>
         chainedTo(i) = "resolved"

C35_Witness ==
  /\ Len(promise_queue) = 3
  /\ promise_queue[1].at = "rejected"
  /\ promise_queue[2].at = "threw"
  /\ promise_queue[3].at = "running"

\* C36: resolve is called at most once for every promise cloudReady returned,
\* only when is_cloud_ready is true, and once is_cloud_ready is true every
\* promise returned so far is resolved: those that waited when the app set
\* _set_cloud_ready, and those asked for later at once
C36_CloudReady ==
  \A n \in 1..Len(cloud_ready) :
    /\ cloud_ready[n].resolved <= 1
    /\ cloud_ready[n].resolved = 1 <=> running.is_cloud_ready

C36_Witness ==
  /\ running.is_cloud_ready
  /\ Len(cloud_ready) = 3
  /\ cloud_ready[1].waited /\ cloud_ready[2].waited /\ ~cloud_ready[3].waited
  /\ \A n \in 1..3 : cloud_ready[n].resolved = 1

\* entry e is one of the entries es
Among(e, es) == \E i \in 1..Len(es) : es[i] = e

\* C37: in the step in which a flushUserConfigBuffer of a collection resolves,
\* every entry that was in the buffer of that collection, also one staged
\* while the flush was under way, is one the flush put into the data it
\* saved, or is still in the buffer after the step
C37_NoStagedEntryLost ==
  [][\A o \in Ops :
       (Flush(o) /\ pc[o] # "resolved" /\ pc'[o] = "resolved") =>
         \A i \in 1..Len(buffer[call[o].c]) :
           \/ Among(buffer[call[o].c][i], sv[o].put)
           \/ Among(buffer[call[o].c][i], buffer'[call[o].c])]_vars

\* the call in slot o is a setUserConfig for the collection and key of the
\* setUserConfig in slot p, issued after that one was rejected because its
\* updateMyMatch failed, with no other call on the collection since, and no
\* two calls on the collection ever under way at the same time
Retried(p, o) ==
  /\ p # o
  /\ pc[p] = "rejected" /\ call[p].kind = "setUserConfig"
  /\ sv[p].local = "ok" /\ sv[p].gw = "write"
  /\ call[o].kind = "setUserConfig" /\ pc[o] # "idle" /\ clean[o]
  /\ call[o].c = call[p].c /\ call[o].key = call[p].key
  /\ ~overlapped[call[o].c]

\* the record of the user of collection c holds value under key
RecordHolds(c, key, value) ==
  dbGetOne(remote[c]) # Null /\ pickValue(dbGetOne(remote[c]), key) = value

\* C38: after a setUserConfig was rejected because updateMyMatch failed, the
\* same call with the same value and skip_equal false issues no database call
\* and resolves false, and a record that did not hold the value when the call
\* was repeated does not hold it afterwards; a repeat with skip_equal true or
\* with another value that resolves has issued updateMyMatch once
C38_RetrySuppressed ==
  \A p \in Ops, o \in Ops :
    Retried(p, o) =>
      IF call[o].value = call[p].value /\ ~call[o].skip_equal
      THEN /\ gwLog[o] = <<>>
           /\ pc[o] \in {"getStorage", "resolved"}
           /\ pc[o] = "resolved" => ret[o] = S("false")
           /\ pickValue(pre[o].fresh, call[o].key) # call[o].value =>
                ~RecordHolds(call[o].c, call[o].key, call[o].value)
      ELSE pc[o] = "resolved" =>
             /\ Times(o, "updateMyMatch") = 1
             /\ ret[o] = S("true")

C38_Witness ==
  \E p \in Ops, o \in Ops :
    /\ Retried(p, o) /\ call[o] = call[p] /\ ~call[o].skip_equal
    /\ pc[o] = "resolved" /\ ret[o] = S("false") /\ gwLog[o] = <<>>
    /\ pickValue(Stored(call[o].c), call[o].key) = call[o].value
    /\ ~RecordHolds(call[o].c, call[o].key, call[o].value)

\* C39: isEqual(a, b) answers true exactly when a and b are the same value:
\* objects with the same keys and equal values under each, arrays of the same
\* length with equal elements, the same string, both null or both undefined
C39_DeepEqual ==
  \A o \in PathOps :
    call[o].kind = "isEqual" => ((ret[o] = S("true")) <=> (doc[o] = call[o].value))

====
